---- MODULE Spec2Model ----
(***************************************************************************)
(* Model of resym's PdbFile (src/src/pdb_file.rs): the type-stream loader  *)
(* (load_from_file / load_symbols) and the type reconstruction entry       *)
(* points (reconstruct_type_by_name, reconstruct_type_by_type_index and    *)
(* the dependency loop of reconstruct_type_by_type_index_internal).        *)
(*                                                                         *)
(* A type stream is a sequence of records; the TypeIndex of a record is    *)
(* its position in the stream (1..Len(stream)); 0 is TypeIndex::default(). *)
(* A rendered text is a sequence of blocks, one block per rendered type.   *)
(*                                                                         *)
(* The application (src/resym/src/resym_app.rs) is modelled next to it,    *)
(* under the specification AppSpec: the user interface sends commands to a *)
(* worker over tx_worker and polls the results the worker pushes to rx_ui. *)
(***************************************************************************)
EXTENDS Integers, Sequences, FiniteSets, TLC

\* ---------------------------------------------------------------- bounds
\* Number of records of the type stream of the input container.
MaxRecords == 3
\* Largest number of distinct type indices one record's fields reference.
MaxRefs == 2
\* Cap on the number of iterations of the dependency loop that are explored.
MaxLoopIterations == 4
\* Number of actions the user of the application takes.
MaxCommands == 4

\* ------------------------------------------------------------- constants
\* pdb::TypeIndex::default(), the "nothing found" value of the name lookup.
DefaultTypeIndex == 0
\* Slot for the single PDB or for the PDB we're diffing from.
PDB_MAIN_SLOT == 0
\* Slot used for the PDB we're diffing to.
PDB_DIFF_SLOT == 1
\* usize::MAX, the selected_row of "no row selected"; rows count from 0.
usize_MAX == -1

\* ------------------------------------------------------- the input space
TagKinds == {"Class", "Union", "Enumeration"}

UnnamedTag == "<unnamed-tag>"

TypeIndices == 1..MaxRecords

RefSets == {s \in SUBSET TypeIndices : Cardinality(s) <= MaxRefs}

\* A record whose parse() fails.
MalformedRecord ==
    [kind |-> "Malformed", name |-> "", unique_name |-> {},
     forward_reference |-> FALSE, refs |-> {}]

\* A record that parses to something else than a class, union or enumeration.
OtherRecord ==
    [kind |-> "Pointer", name |-> "", unique_name |-> {},
     forward_reference |-> FALSE, refs |-> {}]

\* The records the streams are built from: classes named Foo that reference
\* other records, anonymous unions, an enumeration with a unique name, their
\* forward declarations, one record that is no tag and one that does not parse.
RecordSpace ==
    {MalformedRecord, OtherRecord}
    \cup {[kind |-> "Class", name |-> "Foo", unique_name |-> {},
           forward_reference |-> TRUE, refs |-> {}]}
    \cup {[kind |-> "Class", name |-> "Foo", unique_name |-> {},
           forward_reference |-> FALSE, refs |-> r] : r \in RefSets}
    \cup {[kind |-> "Union", name |-> UnnamedTag, unique_name |-> {},
           forward_reference |-> f, refs |-> {}] : f \in BOOLEAN}
    \cup {[kind |-> "Enumeration", name |-> "Bar", unique_name |-> {"?AW4Bar@@"},
           forward_reference |-> FALSE, refs |-> {}]}

Streams == [TypeIndices -> RecordSpace]

FileStatuses == {"ok", "unopenable", "no_type_stream", "iterator_error"}

\* The names reconstruct_type_by_name is asked for.
LookupNames == {"Foo", "Bar", "?AW4Bar@@", "_unnamed_1"}

\* ------------------------------------------------------------- the state
VARIABLES
    file_status,                 \* whether the file opens, has a type stream and
                                 \* lets the record iterator advance
    stream,                      \* the type stream of the file
    load_result,                 \* "none", "ok" (a PdbFile exists) or "err";
                                 \* "resolving" while load_symbols resolves
    pending_forwarders,          \* positions of the forwarders not yet resolved
    complete_type_list,          \* PdbFile.complete_type_list
    forwarder_to_complete_type,  \* PdbFile.forwarder_to_complete_type
    pc,                          \* position of the current reconstruct call
    type_index,                  \* the requested type index
    reconstruct_dependencies,    \* the flag of the current call
    needed_types,                \* local needed_types
    processed_types,             \* local processed_types
    type_data,                   \* local type_data, as text
    dependencies_data,           \* local dependencies_data, as text
    result,                      \* what the current call returned
    add_calls,                   \* indices handed to dependencies_data.add
    type_name,                   \* the name a call by name asks for, if any
    prev,                        \* the previous call, while the current one repeats it
    current_mode,                \* ResymApp.current_mode
    filtered_type_list,          \* ResymApp.filtered_type_list
    selected_row,                \* ResymApp.selected_row
    search_filter,               \* ResymApp.search_filter
    tx_worker,                   \* commands sent and not yet executed
    rx_ui,                       \* results pushed and not yet polled
    pdb_files,                   \* the worker's slots: slot -> path of the loaded file
    sent,                        \* every command sent so far, in order
    issued,                      \* number of actions the user has taken
    produced,                    \* for each executed command, the results it pushed
    running,                     \* the commands the worker has taken and not finished
    old_text,                    \* the first text handed to the diff engine
    new_text,                    \* the second text handed to the diff engine
    type_diff,                   \* what the diff engine returned, once it has
    given_list,                  \* the list last handed to update_index_list
    index_list,                  \* IndexListComponent.index_list
    list_ordering,               \* IndexListComponent.list_ordering
    list_selected_row,           \* IndexListComponent.selected_row
    delayed_row_selection,       \* IndexListComponent.delayed_row_selection
    last_calls,                  \* on_element_selected calls of the last frame
    call_count,                  \* calls made for the selection now in force
    missed                       \* a selection was replaced before any call

pdbVars == <<file_status, stream, load_result, pending_forwarders,
             complete_type_list, forwarder_to_complete_type>>

callVars == <<pc, type_index, reconstruct_dependencies, needed_types,
              processed_types, type_data, dependencies_data, result,
              add_calls, type_name, prev>>

appVars == <<current_mode, filtered_type_list, selected_row, search_filter,
             tx_worker, rx_ui, pdb_files, sent, issued, produced, running>>

diffVars == <<old_text, new_text, type_diff>>

listVars == <<given_list, index_list, list_ordering, list_selected_row,
              delayed_row_selection, last_calls, call_count, missed>>

vars == <<pdbVars, callVars, appVars, diffVars, listVars>>

\* ------------------------------------------------------------ the loader
\* pdb_types::is_unnamed_type: the decoded name denotes an anonymous tag.
is_unnamed_type(name) == name = UnnamedTag

\* Every anonymous tag gets the same synthetic name.
DisplayNameWithoutIndex(name, idx) ==
    IF is_unnamed_type(name) THEN "_unnamed_" ELSE name

\* The name pushed to complete_type_list for the record at type_index.
DisplayName(name, idx) ==
    IF is_unnamed_type(name) THEN "_unnamed_" \o ToString(idx) ELSE name

\* A record that parses to a class, a union or an enumeration.
IsTagRecord(rec) == rec.kind \in TagKinds

\* An insertion that leaves the value of a key already present.
MapInsertKeepingFirst(map, key, value) ==
    IF key \in DOMAIN map THEN map
    ELSE [k \in DOMAIN map \cup {key} |-> IF k = key THEN value ELSE map[k]]

\* DashMap::insert: a later insertion under the same key replaces the value.
MapInsert(map, key, value) ==
    [k \in DOMAIN map \cup {key} |-> IF k = key THEN value ELSE map[k]]

EmptyMap == [k \in {} |-> 0]

\* The state of load_symbols before the first record.
ScanStart == [complete_symbol_map |-> EmptyMap, forwarders |-> <<>>,
              complete_type_list |-> <<>>]

\* ScanRecord without the `continue` of the forward-reference branch: a forward
\* declaration is pushed to the forwarders and registered as a definition too.
ScanRecordNoContinue(s, acc, idx) ==
    LET rec == s[idx] IN
    IF ~IsTagRecord(rec) THEN acc
    ELSE [acc EXCEPT
            !.forwarders = IF rec.forward_reference
                           THEN Append(@, <<rec.name, idx>>) ELSE @,
            !.complete_symbol_map = MapInsert(@, rec.name, idx),
            !.complete_type_list = Append(@, <<DisplayName(rec.name, idx), idx>>)]

\* ScanRecord that lists a definition only when its name is not registered yet.
ScanRecordListsNameOnce(s, acc, idx) ==
    LET rec == s[idx] IN
    IF ~IsTagRecord(rec) THEN acc
    ELSE IF rec.forward_reference
    THEN [acc EXCEPT !.forwarders = Append(@, <<rec.name, idx>>)]
    ELSE [acc EXCEPT
            !.complete_symbol_map = MapInsert(@, rec.name, idx),
            !.complete_type_list =
                IF rec.name \in DOMAIN acc.complete_symbol_map THEN @
                ELSE Append(@, <<DisplayName(rec.name, idx), idx>>)]

\* One iteration of the while loop of load_symbols, on the record at idx.
ScanRecord(s, acc, idx) ==
    LET rec == s[idx] IN
    IF ~IsTagRecord(rec) THEN acc
    ELSE IF rec.forward_reference
    THEN [acc EXCEPT !.forwarders = Append(@, <<rec.name, idx>>)]
    ELSE [acc EXCEPT
            !.complete_symbol_map = MapInsert(@, rec.name, idx),
            !.complete_type_list = Append(@, <<DisplayName(rec.name, idx), idx>>)]

\* The single forward pass over the first n records of the stream.
RECURSIVE ScanStream(_, _)
ScanStream(s, n) ==
    IF n = 0 THEN ScanStart ELSE ScanRecord(s, ScanStream(s, n - 1), n)

\* A forwarder without a definition discards the forwarders resolved so far.
ResolveForwarderResetOnMiss(map, complete_symbol_map, fwd) ==
    IF fwd[1] \in DOMAIN complete_symbol_map
    THEN MapInsert(map, fwd[2], complete_symbol_map[fwd[1]])
    ELSE EmptyMap

\* The closure run for one pending forwarder.
ResolveForwarder(map, complete_symbol_map, fwd) ==
    IF fwd[1] \in DOMAIN complete_symbol_map
    THEN MapInsert(map, fwd[2], complete_symbol_map[fwd[1]])
    ELSE map

\* forwarders.par_iter().for_each(...): every pending forwarder is resolved.
RECURSIVE ResolveForwarders(_, _, _)
ResolveForwarders(forwarders, complete_symbol_map, n) ==
    IF n = 0 THEN EmptyMap
    ELSE ResolveForwarder(ResolveForwarders(forwarders, complete_symbol_map, n - 1),
                          complete_symbol_map, forwarders[n])

\* What load_symbols leaves in the PdbFile for the stream s.
LoadSymbols(s) ==
    LET scan == ScanStream(s, Len(s)) IN
    [complete_type_list |-> scan.complete_type_list,
     forwarder_to_complete_type |->
         ResolveForwarders(scan.forwarders, scan.complete_symbol_map,
                           Len(scan.forwarders))]

\* ---------------------------------------------------------- the renderer
\* Dereference a forward type index to its complete type index when the
\* forwarder map has it, else the index itself.
resolve_complete_type_index(map, idx) ==
    IF idx \in DOMAIN map THEN map[idx] ELSE idx

\* The index resolves to a record that can be found and parsed.
RenderOk(s, map, idx) ==
    LET r == resolve_complete_type_index(map, idx) IN
    r \in DOMAIN s /\ s[r].kind # "Malformed"

\* The text Data::add appends for idx: one block for a class, union or
\* enumeration (an unresolved forward declaration is rendered incomplete,
\* without fields), nothing for any other record.
RenderText(s, map, idx) ==
    LET r == resolve_complete_type_index(map, idx)
        rec == s[r]
    IN  IF ~IsTagRecord(rec) THEN <<>>
        ELSE <<[kind |-> rec.kind,
                name |-> DisplayName(rec.name, r),
                complete |-> ~rec.forward_reference,
                fields |-> IF rec.forward_reference THEN {} ELSE rec.refs]>>

\* The indices Data::add inserts into needed_types for idx: the named types
\* the fields of the record reference, without the record's own index and
\* without the records rendered inline.
RenderRefs(s, map, idx) ==
    LET r == resolve_complete_type_index(map, idx)
        rec == s[r]
    IN  IF ~IsTagRecord(rec) \/ rec.forward_reference THEN {}
        ELSE {j \in rec.refs \ {r} : s[j].kind # OtherRecord.kind}

\* ------------------------------------------------------- reconstruction
Max(S) == CHOOSE x \in S : \A y \in S : y <= x

\* needed_types.last() taken without the difference: the loop ends as soon as
\* the greatest needed index is a processed one.
LastNeededIgnoringDifference(needed, processed) ==
    IF needed = {} \/ Max(needed) \in processed THEN {} ELSE {Max(needed)}

\* The first element of the difference instead of the last.
FirstNeeded(needed, processed) ==
    LET d == needed \ processed IN
    IF d = {} THEN {} ELSE {CHOOSE x \in d : \A y \in d : x <= y}

\* The difference iterated in no fixed order, as a hashed set would be: any
\* of its elements may come out as the last.
AnyNeeded(needed, processed) == needed \ processed

\* needed_types.difference(&processed_types).last().copied(): an Option,
\* here the empty set or a singleton. Both sets are BTreeSets, iterated in
\* the order of the indices, so the element taken is fixed by the two sets.
LastNeeded(needed, processed) ==
    LET d == needed \ processed IN IF d = {} THEN {} ELSE {Max(d)}

\* A processed set that starts empty.
NewProcessedTypesEmpty(idx) == {}

\* BTreeSet::from([type_index])
NewProcessedTypes(idx) == {idx}

\* processed_types.insert(needed_type_index) left out.
InsertProcessedForgotten(processed, idx) == processed

\* processed_types.insert(needed_type_index)
InsertProcessed(processed, idx) == processed \cup {idx}

\* The requested type printed before its dependencies.
FinalTextTypeFirst(deps_text, type_text) == type_text \o deps_text

\* format!("{}{}", dependencies_data, type_data)
FinalText(deps_text, type_text) == deps_text \o type_text

\* The flag is not looked at.
NeverReturnsWithoutDependencies(deps) == FALSE

\* The early return taken when dependencies are not asked for.
ReturnsWithoutDependencies(deps) == ~deps

\* The unique name of a record is not compared.
MatchRecordIgnoringUniqueName(s, found, idx, name) ==
    LET rec == s[idx] IN
    IF IsTagRecord(rec) /\ ~rec.forward_reference /\ rec.name = name
    THEN idx ELSE found

\* Forward references are not skipped.
MatchRecordForwardReferences(s, found, idx, name) ==
    LET rec == s[idx] IN
    IF IsTagRecord(rec) /\ (rec.name = name \/ name \in rec.unique_name)
    THEN idx ELSE found

\* One arm of the match of reconstruct_type_by_name on the record at idx.
MatchRecord(s, found, idx, name) ==
    LET rec == s[idx] IN
    IF IsTagRecord(rec) /\ ~rec.forward_reference
       /\ (rec.name = name \/ name \in rec.unique_name)
    THEN idx ELSE found

\* The pass of reconstruct_type_by_name over the first n records.
RECURSIVE FindTypeIndex(_, _, _)
FindTypeIndex(s, name, n) ==
    IF n = 0 THEN DefaultTypeIndex
    ELSE MatchRecord(s, FindTypeIndex(s, name, n - 1), n, name)

Ok(text) == [ok |-> TRUE, text |-> text, error |-> ""]
Err(msg) == [ok |-> FALSE, text |-> <<>>, error |-> msg]

Returned == pc \in {"done", "failed"}

\* Two indices the forwarder map relates: a forward declaration and the
\* definition it is resolved to.
Aliases(idx, other) ==
    \/ idx \in DOMAIN forwarder_to_complete_type
       /\ forwarder_to_complete_type[idx] = other
    \/ other \in DOMAIN forwarder_to_complete_type
       /\ forwarder_to_complete_type[other] = idx

\* The call by index that just returned, kept while the next call asks by
\* index, with the same flag, for the same index or for an index the forwarder
\* map relates to it.
Remember(idx, deps) ==
    IF Returned /\ deps = reconstruct_dependencies
       /\ type_name = {} /\ type_name' = {}
       /\ (idx = type_index \/ Aliases(idx, type_index))
    THEN {[type_index |-> type_index, result |-> result,
           rendered |-> add_calls]}
    ELSE {}

\* A reconstruction that records the requested index in the forwarder map.
SharedPdbFileWritten ==
    /\ forwarder_to_complete_type' =
           MapInsert(forwarder_to_complete_type, type_index', type_index')
    /\ UNCHANGED <<file_status, stream, load_result, pending_forwarders,
                   complete_type_list>>

\* The reconstruct methods take &self and hand the renderer a shared
\* reference to the forwarder map: the PdbFile is read, never written.
SharedPdbFile == UNCHANGED pdbVars

\* A call that returns an error before anything is rendered.
FailCall(idx, deps, msg) ==
    /\ pc' = "failed"
    /\ result' = Err(msg)
    /\ type_index' = idx
    /\ reconstruct_dependencies' = deps
    /\ needed_types' = {}
    /\ processed_types' = {}
    /\ type_data' = <<>>
    /\ dependencies_data' = <<>>
    /\ add_calls' = <<>>
    /\ prev' = Remember(idx, deps)

\* reconstruct_type_by_type_index_internal up to the first loop iteration.
reconstruct_type_by_type_index_internal(idx, deps) ==
    IF ~RenderOk(stream, forwarder_to_complete_type, idx)
    THEN FailCall(idx, deps, "render error")
    ELSE
        LET text == RenderText(stream, forwarder_to_complete_type, idx)
            refs == RenderRefs(stream, forwarder_to_complete_type, idx)
        IN  /\ type_index' = idx
            /\ reconstruct_dependencies' = deps
            /\ type_data' = text
            /\ needed_types' = refs
            /\ dependencies_data' = <<>>
            /\ add_calls' = <<>>
            /\ prev' = Remember(idx, deps)
            /\ IF ReturnsWithoutDependencies(deps)
               THEN /\ pc' = "done"
                    /\ result' = Ok(text)
                    /\ processed_types' = {}
               ELSE /\ pc' = "loop"
                    /\ result' = Err("pending")
                    /\ processed_types' = NewProcessedTypes(idx)

\* A failed dependency is left out and the text built so far is returned.
DependencyFailureSkipped(deps_text, type_text) == Ok(deps_text \o type_text)

\* The `?` on dependencies_data.add: the error is returned, the texts built
\* so far are dropped.
DependencyFailure(deps_text, type_text) == Err("render error")

\* One iteration of the dependency loop, or the return after it.
DependencyLoop ==
    /\ pc = "loop"
    /\ LET last == LastNeeded(needed_types, processed_types) IN
       IF last = {}
       THEN /\ pc' = "done"
            /\ result' = Ok(FinalText(dependencies_data, type_data))
            /\ UNCHANGED <<needed_types, processed_types, dependencies_data,
                           add_calls>>
       ELSE
         \E needed_type_index \in last :
         /\ Len(add_calls) < MaxLoopIterations
         /\ add_calls' = Append(add_calls, needed_type_index)
         /\ IF ~RenderOk(stream, forwarder_to_complete_type, needed_type_index)
            THEN /\ pc' = "failed"
                 /\ result' = DependencyFailure(dependencies_data, type_data)
                 /\ UNCHANGED <<needed_types, processed_types, dependencies_data>>
            ELSE /\ dependencies_data' = dependencies_data \o
                        RenderText(stream, forwarder_to_complete_type, needed_type_index)
                 /\ needed_types' = needed_types \cup
                        RenderRefs(stream, forwarder_to_complete_type, needed_type_index)
                 /\ processed_types' = InsertProcessed(processed_types, needed_type_index)
                 /\ UNCHANGED <<pc, result>>
    /\ UNCHANGED <<type_index, reconstruct_dependencies, type_data, type_name,
                   prev>>
    /\ SharedPdbFile
    /\ UNCHANGED <<appVars, diffVars, listVars>>

\* A record that does not parse makes the load fail too.
LoadFailsOnMalformed(status, s) ==
    status # "ok" \/ \E i \in DOMAIN s : s[i].kind = MalformedRecord.kind

\* A file without a type stream is loaded as an empty container.
LoadFailsUnlessNoTypeStream(status, s) ==
    status \notin {"ok", "no_type_stream"}

\* The `?` operators of load_from_file and load_symbols: the file does not
\* open, its header or type stream cannot be read, or the record iterator
\* fails to advance.
LoadFails(status, s) == status # "ok"

\* What is left of the PdbFile under construction when the load fails: it is
\* dropped, the caller gets the error alone.
DroppedPdbFile(s) ==
    [complete_type_list |-> <<>>, forwarder_to_complete_type |-> EmptyMap]

\* PdbFile::load_from_file
load_from_file ==
    /\ load_result = "none"
    /\ LET failed == LoadFails(file_status, stream)
           pdb_file == IF failed THEN DroppedPdbFile(stream)
                       ELSE LoadSymbols(stream)
       IN  /\ load_result' = IF failed THEN "err" ELSE "ok"
           /\ complete_type_list' = pdb_file.complete_type_list
           /\ forwarder_to_complete_type' = pdb_file.forwarder_to_complete_type
    /\ UNCHANGED <<file_status, stream, pending_forwarders>>
    /\ UNCHANGED callVars
    /\ UNCHANGED <<appVars, diffVars, listVars>>

CanCall == load_result = "ok" /\ pc # "loop"

\* PdbFile::reconstruct_type_by_type_index
reconstruct_type_by_type_index(idx, deps) ==
    /\ CanCall
    /\ type_name' = {}
    /\ reconstruct_type_by_type_index_internal(idx, deps)
    /\ SharedPdbFile
    /\ UNCHANGED <<appVars, diffVars, listVars>>

\* PdbFile::reconstruct_type_by_name
reconstruct_type_by_name(name, deps) ==
    /\ CanCall
    /\ type_name' = {name}
    /\ LET found == FindTypeIndex(stream, name, Len(stream)) IN
       IF found = DefaultTypeIndex
       THEN FailCall(found, deps, "type not found")
       ELSE reconstruct_type_by_type_index_internal(found, deps)
    /\ SharedPdbFile
    /\ UNCHANGED <<appVars, diffVars, listVars>>

\* The indices reconstruct_type_by_type_index is asked for: every index of
\* the stream and one index that no record has.
RequestIndices == 1..(MaxRecords + 1)

\* ResymApp::new: the application starts idle, with nothing listed, nothing
\* selected, no command sent and no file in any slot.
\* No diff is under study.
DiffIdle ==
    /\ old_text = <<>>
    /\ new_text = <<>>
    /\ type_diff = {}

\* IndexListComponent::default: an empty list in the order given, no row
\* selected, no selection awaiting its row.
ListIdle ==
    /\ given_list = <<>>
    /\ index_list = <<>>
    /\ list_ordering = "None"
    /\ list_selected_row = usize_MAX
    /\ delayed_row_selection = {}
    /\ last_calls = <<>>
    /\ call_count = 0
    /\ missed = FALSE

AppStart ==
    /\ current_mode = [mode |-> "Idle", content |-> <<>>]
    /\ filtered_type_list = <<>>
    /\ selected_row = usize_MAX
    /\ search_filter = ""
    /\ tx_worker = <<>>
    /\ rx_ui = <<>>
    /\ pdb_files = EmptyMap
    /\ sent = <<>>
    /\ issued = 0
    /\ produced = <<>>
    /\ running = {}

Init ==
    /\ file_status \in FileStatuses
    /\ stream \in (IF file_status \in {"ok", "iterator_error"} THEN Streams
                   ELSE {<<>>})
    /\ load_result = "none"
    /\ pending_forwarders = {}
    /\ complete_type_list = <<>>
    /\ forwarder_to_complete_type = EmptyMap
    /\ pc = "idle"
    /\ type_index = DefaultTypeIndex
    /\ reconstruct_dependencies = FALSE
    /\ needed_types = {}
    /\ processed_types = {}
    /\ type_data = <<>>
    /\ dependencies_data = <<>>
    /\ result = Err("pending")
    /\ add_calls = <<>>
    /\ type_name = {}
    /\ prev = {}
    /\ DiffIdle
    /\ ListIdle
    /\ AppStart

Next ==
    \/ load_from_file
    \/ \E idx \in RequestIndices, deps \in BOOLEAN :
           reconstruct_type_by_type_index(idx, deps)
    \/ \E name \in LookupNames, deps \in BOOLEAN :
           reconstruct_type_by_name(name, deps)
    \/ DependencyLoop

Spec == Init /\ [][Next]_vars

\* The dependency loop of a running call is always continued.
FairSpec == Spec /\ WF_vars(DependencyLoop)

\* ------------------------------------------- the load, forwarder by forwarder
\* load_from_file up to the parallel pass of load_symbols: the stream is
\* scanned, and the forwarders found are handed to the thread pool.
load_symbols_scan ==
    /\ load_result = "none"
    /\ IF LoadFails(file_status, stream)
       THEN /\ load_result' = "err"
            /\ complete_type_list' = DroppedPdbFile(stream).complete_type_list
            /\ pending_forwarders' = {}
       ELSE LET scan == ScanStream(stream, Len(stream)) IN
            /\ load_result' = "resolving"
            /\ complete_type_list' = scan.complete_type_list
            /\ pending_forwarders' = DOMAIN scan.forwarders
    /\ UNCHANGED <<file_status, stream, forwarder_to_complete_type>>
    /\ UNCHANGED callVars
    /\ UNCHANGED <<appVars, diffVars, listVars>>

\* One run of the for_each closure, on any forwarder not yet taken.
resolve_forwarder(i) ==
    /\ load_result \in {"resolving", "ok"}
    /\ i \in pending_forwarders
    /\ LET scan == ScanStream(stream, Len(stream)) IN
       forwarder_to_complete_type' =
           ResolveForwarder(forwarder_to_complete_type,
                            scan.complete_symbol_map, scan.forwarders[i])
    /\ pending_forwarders' = pending_forwarders \ {i}
    /\ UNCHANGED <<file_status, stream, load_result, complete_type_list>>
    /\ UNCHANGED callVars
    /\ UNCHANGED <<appVars, diffVars, listVars>>

\* for_each returns while closures are still to run.
ForEachReturnsEarly(pending) == TRUE

\* forwarders.par_iter().for_each(...) returns once the closure has run on
\* every forwarder.
ForEachReturns(pending) == pending = {}

\* load_symbols returns Ok(()) and load_from_file hands out the PdbFile.
load_symbols_return ==
    /\ load_result = "resolving"
    /\ ForEachReturns(pending_forwarders)
    /\ load_result' = "ok"
    /\ UNCHANGED <<file_status, stream, pending_forwarders, complete_type_list,
                   forwarder_to_complete_type>>
    /\ UNCHANGED callVars
    /\ UNCHANGED <<appVars, diffVars, listVars>>

LoadNext ==
    \/ load_symbols_scan
    \/ \E i \in 1..MaxRecords : resolve_forwarder(i)
    \/ load_symbols_return
    \/ \E idx \in RequestIndices, deps \in BOOLEAN :
           reconstruct_type_by_type_index(idx, deps)
    \/ \E name \in LookupNames, deps \in BOOLEAN :
           reconstruct_type_by_name(name, deps)
    \/ DependencyLoop

LoadSpec == Init /\ [][LoadNext]_vars

\* ------------------------------------------------------ the application
\* The files the user can pick in the open-file dialog.
PdbPaths == {"a.pdb", "b.pdb", "bad.pdb"}

\* What is behind each path: two files that load, with a class Foo in both
\* at different indices, and one that does not open.
FileAt(path) ==
    CASE path = "a.pdb" ->
           [status |-> "ok",
            stream |-> <<[kind |-> "Class", name |-> "Foo", unique_name |-> {},
                          forward_reference |-> FALSE, refs |-> {}],
                         [kind |-> "Class", name |-> "Foo", unique_name |-> {},
                          forward_reference |-> TRUE, refs |-> {}],
                         [kind |-> "Enumeration", name |-> "Bar",
                          unique_name |-> {"?AW4Bar@@"},
                          forward_reference |-> FALSE, refs |-> {}]>>]
      [] path = "b.pdb" ->
           [status |-> "ok",
            stream |-> <<[kind |-> "Union", name |-> UnnamedTag, unique_name |-> {},
                          forward_reference |-> FALSE, refs |-> {}],
                         [kind |-> "Class", name |-> "Foo", unique_name |-> {},
                          forward_reference |-> FALSE, refs |-> {}]>>]
      [] path = "c.pdb" ->
           [status |-> "ok",
            stream |-> <<[kind |-> "Class", name |-> "Foo", unique_name |-> {},
                          forward_reference |-> FALSE, refs |-> {}],
                         [kind |-> "Class", name |-> "foobar", unique_name |-> {},
                          forward_reference |-> FALSE, refs |-> {}],
                         [kind |-> "Enumeration", name |-> "Bar",
                          unique_name |-> {},
                          forward_reference |-> FALSE, refs |-> {}],
                         [kind |-> "Class", name |-> "Foo", unique_name |-> {},
                          forward_reference |-> FALSE, refs |-> {}]>>]
      [] OTHER -> [status |-> "unopenable", stream |-> <<>>]

\* The texts the user can type in the search box.
SearchFilters == {"", "Foo"}

\* BackendCommand, without the settings each command forwards.
LoadPDB(slot, path) == [cmd |-> "LoadPDB", slot |-> slot, path |-> path]
UnloadPDB(slot) == [cmd |-> "UnloadPDB", slot |-> slot]
UpdateTypeFilter(slot, filter, case_insensitive) ==
    [cmd |-> "UpdateTypeFilter", slot |-> slot, search_filter |-> filter,
     case_insensitive |-> case_insensitive]
UpdateTypeFilterMerged(slots, filter, case_insensitive) ==
    [cmd |-> "UpdateTypeFilterMerged", slots |-> slots,
     search_filter |-> filter, case_insensitive |-> case_insensitive]
ReconstructTypeByIndex(slot, idx) ==
    [cmd |-> "ReconstructTypeByIndex", slot |-> slot, type_index |-> idx]
DiffTypeByName(slot_from, slot_to, name) ==
    [cmd |-> "DiffTypeByName", slot_from |-> slot_from, slot_to |-> slot_to,
     type_name |-> name]

\* FrontendCommand: the four variants process_ui_commands matches on.
LoadPDBResult(r) == [res |-> "LoadPDBResult", value |-> r]
ReconstructTypeResult(r) == [res |-> "ReconstructTypeResult", value |-> r]
DiffTypeResult(r) == [res |-> "DiffTypeResult", value |-> r]
UpdateFilteredTypes(list) == [res |-> "UpdateFilteredTypes", value |-> list]

\* ResymAppMode; the line numbers the modes carry are computed from the text.
Idle == [mode |-> "Idle", content |-> <<>>]
Browsing(text) == [mode |-> "Browsing", content |-> text]
Comparing(diff) == [mode |-> "Comparing", content |-> diff]

\* ---- the diff engine
\* The most lines a text under diff has.
MaxLines == 3

\* The lines the texts are made of.
Lines == {"line1", "line2", "lineX"}

\* A text is the sequence of its lines.
Texts == UNION {[1..n -> Lines] : n \in 0..MaxLines}

\* No two lines are ever taken for the same line.
LinesNeverEqual(a, b) == FALSE

\* Two lines are the same line when their text is the same.
LinesEqual(a, b) == a = b

\* The length of the longest common subsequence of the lines of old from i
\* on and the lines of new from j on.
LcsLength(old, new, i, j) ==
    LET L[m \in 1..(Len(old) + 1), n \in 1..(Len(new) + 1)] ==
            IF m > Len(old) \/ n > Len(new) THEN 0
            ELSE IF LinesEqual(old[m], new[n]) THEN 1 + L[m + 1, n + 1]
            ELSE IF L[m + 1, n] >= L[m, n + 1] THEN L[m + 1, n]
            ELSE L[m, n + 1]
    IN  L[i, j]

\* The kinds of change an entry has.
ChangeKinds == {"unchanged", "added", "removed", "modified-pair"}

\* One entry of the metadata: the index of the line in the old text and in
\* the new text (each may be absent) and the kind of change.
DiffEntry(old_index, new_index, change) ==
    [indices |-> <<old_index, new_index>>, change |-> change]

\* The shortest edit scripts from old to new, all of them: a line common to
\* both texts is kept, an old line is removed or a new line is added
\* wherever that loses no common line of the rest.
EditScripts(old, new) ==
    LET S[m \in 1..(Len(old) + 1), n \in 1..(Len(new) + 1)] ==
            IF m > Len(old) /\ n > Len(new) THEN {<<>>}
            ELSE
              (IF m <= Len(old) /\ n <= Len(new) /\ LinesEqual(old[m], new[n])
               THEN {<<DiffEntry({m - 1}, {n - 1}, "unchanged")>> \o s :
                        s \in S[m + 1, n + 1]}
               ELSE {})
              \cup
              (IF m <= Len(old)
                  /\ LcsLength(old, new, m + 1, n) = LcsLength(old, new, m, n)
               THEN {<<DiffEntry({m - 1}, {}, "removed")>> \o s :
                        s \in S[m + 1, n]}
               ELSE {})
              \cup
              (IF n <= Len(new)
                  /\ LcsLength(old, new, m, n + 1) = LcsLength(old, new, m, n)
               THEN {<<DiffEntry({}, {n - 1}, "added")>> \o s :
                        s \in S[m, n + 1]}
               ELSE {})
    IN  S[1, 1]

\* The entries of a changed region left as they are in the script: the old
\* lines removed, then the new lines added, none paired.
RegionEntriesUnpaired(olds, news) ==
    [k \in 1..(Len(olds) + Len(news)) |->
        IF k <= Len(olds) THEN DiffEntry({olds[k]}, {}, "removed")
        ELSE DiffEntry({}, {news[k - Len(olds)]}, "added")]

\* The entries of a changed region, between two common lines: the k-th old
\* line and the k-th new line of the region make one modified-pair entry
\* that carries both indices; the old or new lines left over are removed or
\* added.
RegionEntries(olds, news) ==
    [k \in 1..(IF Len(olds) >= Len(news) THEN Len(olds) ELSE Len(news)) |->
        IF k <= Len(olds) /\ k <= Len(news)
        THEN DiffEntry({olds[k]}, {news[k]}, "modified-pair")
        ELSE IF k <= Len(olds) THEN DiffEntry({olds[k]}, {}, "removed")
        ELSE DiffEntry({}, {news[k]}, "added")]

\* The metadata of an edit script from its k-th step on, olds and news being
\* the lines of the changed region the step is in.
RECURSIVE DiffMetadata(_, _, _, _)
DiffMetadata(script, k, olds, news) ==
    IF k > Len(script) THEN RegionEntries(olds, news)
    ELSE IF script[k].change = "unchanged"
    THEN RegionEntries(olds, news) \o <<script[k]>>
             \o DiffMetadata(script, k + 1, <<>>, <<>>)
    ELSE IF script[k].change = "removed"
    THEN DiffMetadata(script, k + 1,
             olds \o <<CHOOSE m \in script[k].indices[1] : TRUE>>, news)
    ELSE DiffMetadata(script, k + 1,
             olds, news \o <<CHOOSE n \in script[k].indices[2] : TRUE>>)

\* The lines an entry shows in the merged text: an unchanged line once, a
\* removed line, an added line, or both sides of a modified pair.
DiffLine(old, new, entry) ==
    (IF entry.change \in {"removed", "modified-pair"}
     THEN <<old[1 + CHOOSE m \in entry.indices[1] : TRUE]>> ELSE <<>>)
    \o
    (IF entry.change \in {"unchanged", "added", "modified-pair"}
     THEN <<new[1 + CHOOSE n \in entry.indices[2] : TRUE]>> ELSE <<>>)

\* The merged text of the entries from the k-th on.
RECURSIVE MergedText(_, _, _, _)
MergedText(old, new, metadata, k) ==
    IF k > Len(metadata) THEN <<>>
    ELSE DiffLine(old, new, metadata[k]) \o MergedText(old, new, metadata, k + 1)

\* What diff may return: for each shortest edit script, its metadata and
\* the merged text.
Diffs(old, new) ==
    {LET metadata == DiffMetadata(script, 1, <<>>, <<>>) IN
     [metadata |-> metadata, data |-> MergedText(old, new, metadata, 1)] :
        script \in EditScripts(old, new)}

\* diff, for the worker. The texts the worker diffs are one rendered type
\* each, and for them every shortest script gives the same result.
Diff(old, new) == CHOOSE d \in Diffs(old, new) : TRUE

\* ---- the worker
MapRemove(map, key) == [k \in DOMAIN map \ {key} |-> map[k]]

\* The complete-type list of the file a slot holds; nothing for a free slot.
SlotTypeList(files, slot) ==
    IF slot \in DOMAIN files
    THEN LoadSymbols(FileAt(files[slot]).stream).complete_type_list
    ELSE <<>>

\* The characters of the names and patterns explored.
Chars(str) ==
    CASE str = "" -> <<>>
      [] str = "Foo" -> <<"F", "o", "o">>
      [] str = "foo" -> <<"f", "o", "o">>
      [] str = "oba" -> <<"o", "b", "a">>
      [] str = "Bar" -> <<"B", "a", "r">>
      [] str = "foobar" -> <<"f", "o", "o", "b", "a", "r">>
      [] str = "_unnamed_1" ->
           <<"_", "u", "n", "n", "a", "m", "e", "d", "_", "1">>

ToLowerChar(c) == CASE c = "F" -> "f" [] c = "B" -> "b" [] OTHER -> c

ToLowercase(chars) == [i \in DOMAIN chars |-> ToLowerChar(chars[i])]

\* str::contains: the needle occurs in the haystack at some offset.
Contains(haystack, needle) ==
    \E offset \in 0..(Len(haystack) - Len(needle)) :
        SubSeq(haystack, offset + 1, offset + Len(needle)) = needle

\* The match test that compares the characters as they are, whatever the
\* flag says.
TypeMatchesExactCase(name, filter, case_insensitive) ==
    Contains(Chars(name), Chars(filter))

\* The match test of the filter: the display name contains the pattern,
\* both lowercased first when the search is case-insensitive.
TypeMatches(name, filter, case_insensitive) ==
    IF case_insensitive
    THEN Contains(ToLowercase(Chars(name)), ToLowercase(Chars(filter)))
    ELSE Contains(Chars(name), Chars(filter))

\* The entries of list whose display name no earlier entry has.
DeduplicateByName(list) ==
    LET first(i) == \A k \in 1..(i - 1) : list[k][1] # list[i][1]
        F[i \in 0..Len(list)] ==
            IF i = 0 THEN <<>>
            ELSE IF first(i) THEN Append(F[i - 1], list[i]) ELSE F[i - 1]
    IN  F[Len(list)]

\* The union of two lists that keeps every entry, twice when both have it.
MergeTypeListsKeepingAll(a, b) == a \o b

\* The union of two lists, one entry for each display name.
MergeTypeLists(a, b) == DeduplicateByName(a \o b)

RECURSIVE MergedTypeList(_, _, _)
MergedTypeList(files, slots, n) ==
    IF n = 0 THEN <<>>
    ELSE MergeTypeLists(MergedTypeList(files, slots, n - 1),
                        SlotTypeList(files, slots[n]))

\* The filtered list of one slot.
FilteredTypes(files, slot, filter, case_insensitive) ==
    SelectSeq(SlotTypeList(files, slot),
              LAMBDA e : TypeMatches(e[1], filter, case_insensitive))

\* The filtered list of several slots merged.
FilteredTypesMerged(files, slots, filter, case_insensitive) ==
    SelectSeq(MergedTypeList(files, slots, Len(slots)),
              LAMBDA e : TypeMatches(e[1], filter, case_insensitive))

\* The reconstruction of one type of a slot, without its dependencies.
ReconstructInSlot(files, slot, idx) ==
    IF slot \notin DOMAIN files THEN Err("no PDB loaded")
    ELSE LET s == FileAt(files[slot]).stream
             map == LoadSymbols(s).forwarder_to_complete_type
         IN  IF RenderOk(s, map, idx) THEN Ok(RenderText(s, map, idx))
             ELSE Err("render error")

ReconstructInSlotByName(files, slot, name) ==
    IF slot \notin DOMAIN files THEN Err("no PDB loaded")
    ELSE LET s == FileAt(files[slot]).stream
             found == FindTypeIndex(s, name, Len(s))
         IN  IF found = DefaultTypeIndex THEN Err("type not found")
             ELSE ReconstructInSlot(files, slot, found)

\* The diff of the two reconstructions, or the first error.
DiffInSlots(files, slot_from, slot_to, name) ==
    LET from == ReconstructInSlotByName(files, slot_from, name)
        to == ReconstructInSlotByName(files, slot_to, name)
    IN  IF ~from.ok THEN from
        ELSE IF ~to.ok THEN to
        ELSE Ok(Diff(from.text, to.text))

\* A load that fails frees the slot it was meant for.
FailedLoadFreesSlot(files, slot) == MapRemove(files, slot)

\* The slots after a load into slot has failed: the new PdbFile never came
\* to exist, so nothing is put in the slot and nothing is taken out of it.
FailedLoadSlots(files, slot) == files

\* One command run to completion: the slots it leaves and the results it
\* pushes to the result channel.
RunBackendCommand(cmd, files) ==
    CASE cmd.cmd = "LoadPDB" ->
           LET file == FileAt(cmd.path) IN
           IF LoadFails(file.status, file.stream)
           THEN [pdb_files |-> FailedLoadSlots(files, cmd.slot),
                 results |-> <<LoadPDBResult(Err("load error"))>>]
           ELSE [pdb_files |-> MapInsert(files, cmd.slot, cmd.path),
                 results |-> <<LoadPDBResult(Ok(cmd.slot))>>]
      [] cmd.cmd = "UnloadPDB" ->
           [pdb_files |-> MapRemove(files, cmd.slot), results |-> <<>>]
      [] cmd.cmd = "UpdateTypeFilter" ->
           [pdb_files |-> files,
            results |-> <<UpdateFilteredTypes(
                FilteredTypes(files, cmd.slot, cmd.search_filter,
                              cmd.case_insensitive))>>]
      [] cmd.cmd = "UpdateTypeFilterMerged" ->
           [pdb_files |-> files,
            results |-> <<UpdateFilteredTypes(
                FilteredTypesMerged(files, cmd.slots, cmd.search_filter,
                                    cmd.case_insensitive))>>]
      [] cmd.cmd = "ReconstructTypeByIndex" ->
           [pdb_files |-> files,
            results |-> <<ReconstructTypeResult(
                ReconstructInSlot(files, cmd.slot, cmd.type_index))>>]
      [] cmd.cmd = "DiffTypeByName" ->
           [pdb_files |-> files,
            results |-> <<DiffTypeResult(
                DiffInSlots(files, cmd.slot_from, cmd.slot_to, cmd.type_name))>>]

\* A result is the failure of its command.
IsFailure(res) ==
    res.res \in {"LoadPDBResult", "ReconstructTypeResult", "DiffTypeResult"}
    /\ ~res.value.ok

\* One turn of the worker loop: the worker takes the oldest command, runs it
\* and pushes its results. The thread is spawned once and ends when the
\* loop returns (resym.rs:68-74); no specification puts fairness on this
\* step, so a worker that has stopped taking commands, after a failure or
\* at any other point, is among the behaviours followed.
worker_thread ==
    /\ tx_worker # <<>>
    /\ LET out == RunBackendCommand(Head(tx_worker), pdb_files) IN
       /\ pdb_files' = out.pdb_files
       /\ rx_ui' = rx_ui \o out.results
       /\ produced' = Append(produced, out.results)
    /\ tx_worker' = Tail(tx_worker)
    /\ UNCHANGED <<current_mode, filtered_type_list, selected_row,
                   search_filter, sent, issued>>
    /\ UNCHANGED <<diffVars, listVars, pdbVars, callVars, running>>

\* ---- the user interface
\* Backend::send_command, for the commands one handler sends in a row.
send_command(cmds) ==
    /\ tx_worker' = tx_worker \o cmds
    /\ sent' = sent \o cmds

\* "Compare with..." can be chosen in every mode.
CompareAlwaysEnabled(mode) == TRUE

\* update_menu_bar: the "Compare with..." button is enabled while browsing.
CompareEnabled(mode) == mode.mode = "Browsing"

\* ResymApp::start_open_pdb_file: "Open PDB file" is always available,
\* "Compare with..." only while browsing.
start_open_pdb_file(pdb_slot, file_path) ==
    /\ issued < MaxCommands
    /\ issued' = issued + 1
    /\ pdb_slot = PDB_DIFF_SLOT => CompareEnabled(current_mode)
    /\ send_command(<<LoadPDB(pdb_slot, file_path)>>)
    /\ UNCHANGED <<current_mode, filtered_type_list, selected_row,
                   search_filter, rx_ui, pdb_files, produced>>
    /\ UNCHANGED <<diffVars, listVars, pdbVars, callVars, running>>

\* ResymApp::update, the search box: a changed text is sent as a filter.
update_search_filter(text, search_case_insensitive) ==
    /\ issued < MaxCommands
    /\ issued' = issued + 1
    /\ text # search_filter
    /\ search_filter' = text
    /\ send_command(<<IF current_mode.mode = "Comparing"
                      THEN UpdateTypeFilterMerged(
                               <<PDB_MAIN_SLOT, PDB_DIFF_SLOT>>, text,
                               search_case_insensitive)
                      ELSE UpdateTypeFilter(PDB_MAIN_SLOT, text,
                                            search_case_insensitive)>>)
    /\ UNCHANGED <<current_mode, filtered_type_list, selected_row, rx_ui,
                   pdb_files, produced>>
    /\ UNCHANGED <<diffVars, listVars, pdbVars, callVars, running>>

\* ResymApp::update_type_list: a click on a row of the list.
update_type_list(row_index) ==
    /\ issued < MaxCommands
    /\ issued' = issued + 1
    /\ row_index \in 0..(Len(filtered_type_list) - 1)
    /\ selected_row' = row_index
    /\ LET entry == filtered_type_list[row_index + 1] IN
       send_command(
           CASE current_mode.mode = "Browsing" ->
                  <<ReconstructTypeByIndex(PDB_MAIN_SLOT, entry[2])>>
             [] current_mode.mode = "Comparing" ->
                  <<DiffTypeByName(PDB_MAIN_SLOT, PDB_DIFF_SLOT, entry[1])>>
             [] OTHER -> <<>>)
    /\ UNCHANGED <<current_mode, filtered_type_list, search_filter, rx_ui,
                   pdb_files, produced>>
    /\ UNCHANGED <<diffVars, listVars, pdbVars, callVars, running>>

\* A failed reconstruction clears what is shown.
ModeAfterReconstructClearing(mode, value) ==
    IF value.ok THEN Browsing(value.text) ELSE Browsing(<<>>)

\* The mode after a ReconstructTypeResult: the text is shown, a failure is
\* logged only.
ModeAfterReconstruct(mode, value) ==
    IF value.ok THEN Browsing(value.text) ELSE mode

\* The commands sent on a main load that never unload the comparison file.
MainLoadCommandsWithoutUnload(mode) ==
    <<UpdateTypeFilter(PDB_MAIN_SLOT, "", FALSE)>>

\* The commands process_ui_commands sends when the main file has loaded: the
\* comparison file is unloaded if a comparison is on, then the whole type
\* list is requested.
MainLoadCommands(mode) ==
    (IF mode.mode = "Comparing" THEN <<UnloadPDB(PDB_DIFF_SLOT)>> ELSE <<>>)
    \o <<UpdateTypeFilter(PDB_MAIN_SLOT, "", FALSE)>>

\* ResymApp::process_ui_commands, one turn of its loop: the oldest result is
\* taken from the channel and handled.
process_ui_commands ==
    /\ rx_ui # <<>>
    /\ rx_ui' = Tail(rx_ui)
    /\ LET cmd == Head(rx_ui) IN
       CASE cmd.res = "LoadPDBResult" /\ ~cmd.value.ok ->
              /\ send_command(<<>>)
              /\ UNCHANGED <<current_mode, filtered_type_list, selected_row>>
         [] cmd.res = "LoadPDBResult" /\ cmd.value.ok
                /\ cmd.value.text = PDB_MAIN_SLOT ->
              /\ send_command(MainLoadCommands(current_mode))
              /\ current_mode' = Browsing(<<>>)
              /\ UNCHANGED <<filtered_type_list, selected_row>>
         [] cmd.res = "LoadPDBResult" /\ cmd.value.ok
                /\ cmd.value.text = PDB_DIFF_SLOT ->
              /\ send_command(<<UpdateTypeFilterMerged(
                                    <<PDB_MAIN_SLOT, PDB_DIFF_SLOT>>, "", FALSE)>>)
              /\ current_mode' = Comparing(<<>>)
              /\ UNCHANGED <<filtered_type_list, selected_row>>
         [] cmd.res = "ReconstructTypeResult" ->
              /\ send_command(<<>>)
              /\ current_mode' = ModeAfterReconstruct(current_mode, cmd.value)
              /\ UNCHANGED <<filtered_type_list, selected_row>>
         [] cmd.res = "DiffTypeResult" ->
              /\ send_command(<<>>)
              /\ current_mode' = IF cmd.value.ok THEN Comparing(cmd.value.text)
                                 ELSE current_mode
              /\ UNCHANGED <<filtered_type_list, selected_row>>
         [] cmd.res = "UpdateFilteredTypes" ->
              /\ send_command(<<>>)
              /\ filtered_type_list' = cmd.value
              /\ selected_row' = usize_MAX
              /\ UNCHANGED current_mode
    /\ UNCHANGED <<search_filter, pdb_files, produced, issued>>
    /\ UNCHANGED <<diffVars, listVars, pdbVars, callVars, running>>

\* The application runs on its own: no PdbFile of the single-file model is
\* under study.
AppInit ==
    /\ file_status = "ok"
    /\ stream = <<>>
    /\ load_result = "none"
    /\ pending_forwarders = {}
    /\ complete_type_list = <<>>
    /\ forwarder_to_complete_type = EmptyMap
    /\ pc = "idle"
    /\ type_index = DefaultTypeIndex
    /\ reconstruct_dependencies = FALSE
    /\ needed_types = {}
    /\ processed_types = {}
    /\ type_data = <<>>
    /\ dependencies_data = <<>>
    /\ result = Err("pending")
    /\ add_calls = <<>>
    /\ type_name = {}
    /\ prev = {}
    /\ DiffIdle
    /\ ListIdle
    /\ AppStart

AppNext ==
    \/ \E file_path \in PdbPaths : start_open_pdb_file(PDB_MAIN_SLOT, file_path)
    \/ \E file_path \in PdbPaths : start_open_pdb_file(PDB_DIFF_SLOT, file_path)
    \/ \E text \in SearchFilters, search_case_insensitive \in BOOLEAN :
           update_search_filter(text, search_case_insensitive)
    \/ \E row_index \in 0..MaxRecords : update_type_list(row_index)
    \/ worker_thread
    \/ process_ui_commands

AppSpec == AppInit /\ [][AppNext]_vars

\* ---- the worker, command by command in two steps
\* The worker is between two commands.
WorkerTakesWhileRunning(inflight) == TRUE

\* The one worker job the application spawns runs its loop on one thread: it
\* receives the next command only after the previous one has returned.
WorkerIsFree(inflight) == inflight = {}

\* The slots a command reads without changing them.
ReadSlots(cmd) ==
    CASE cmd.cmd = "ReconstructTypeByIndex" -> {cmd.slot}
      [] cmd.cmd = "DiffTypeByName" -> {cmd.slot_from, cmd.slot_to}
      [] cmd.cmd = "UpdateTypeFilter" -> {cmd.slot}
      [] cmd.cmd = "UpdateTypeFilterMerged" ->
           {cmd.slots[k] : k \in DOMAIN cmd.slots}
      [] OTHER -> {}

\* The worker receives the oldest command and starts on it.
worker_begin ==
    /\ WorkerIsFree(running)
    /\ tx_worker # <<>>
    /\ running' = running \cup {Head(tx_worker)}
    /\ tx_worker' = Tail(tx_worker)
    /\ UNCHANGED <<current_mode, filtered_type_list, selected_row,
                   search_filter, rx_ui, pdb_files, sent, issued, produced>>
    /\ UNCHANGED <<diffVars, listVars, pdbVars, callVars>>

\* The command returns: its effect on the slots and its results.
worker_end(cmd) ==
    /\ cmd \in running
    /\ LET out == RunBackendCommand(cmd, pdb_files) IN
       /\ pdb_files' = out.pdb_files
       /\ rx_ui' = rx_ui \o out.results
       /\ produced' = Append(produced, out.results)
    /\ running' = running \ {cmd}
    /\ UNCHANGED <<current_mode, filtered_type_list, selected_row,
                   search_filter, tx_worker, sent, issued>>
    /\ UNCHANGED <<diffVars, listVars, pdbVars, callVars>>

WorkerNext ==
    \/ \E file_path \in PdbPaths : start_open_pdb_file(PDB_MAIN_SLOT, file_path)
    \/ \E file_path \in PdbPaths : start_open_pdb_file(PDB_DIFF_SLOT, file_path)
    \/ \E text \in SearchFilters, search_case_insensitive \in BOOLEAN :
           update_search_filter(text, search_case_insensitive)
    \/ \E row_index \in 0..MaxRecords : update_type_list(row_index)
    \/ worker_begin
    \/ \E cmd \in running : worker_end(cmd)
    \/ process_ui_commands

WorkerSpec == AppInit /\ [][WorkerNext]_vars

\* ---- the filter commands on their own
\* The patterns a filter command may carry.
FilterPatterns == {"", "Foo", "foo", "oba", "Bar"}

\* The files a slot may hold when a filter command arrives.
FilterPaths == {"a.pdb", "b.pdb", "c.pdb"}

\* The ways the two slots may be filled.
SlotFillings ==
    UNION {[slots -> FilterPaths] :
               slots \in SUBSET {PDB_MAIN_SLOT, PDB_DIFF_SLOT}}

FilterCommands ==
    {UpdateTypeFilter(slot, filter, ci) :
         slot \in {PDB_MAIN_SLOT, PDB_DIFF_SLOT}, filter \in FilterPatterns,
         ci \in BOOLEAN}
    \cup {UpdateTypeFilterMerged(<<PDB_MAIN_SLOT, PDB_DIFF_SLOT>>, filter, ci) :
              filter \in FilterPatterns, ci \in BOOLEAN}

\* One filter command is waiting for the worker, whatever the slots hold.
FilterInit ==
    /\ file_status = "ok"
    /\ stream = <<>>
    /\ load_result = "none"
    /\ pending_forwarders = {}
    /\ complete_type_list = <<>>
    /\ forwarder_to_complete_type = EmptyMap
    /\ pc = "idle"
    /\ type_index = DefaultTypeIndex
    /\ reconstruct_dependencies = FALSE
    /\ needed_types = {}
    /\ processed_types = {}
    /\ type_data = <<>>
    /\ dependencies_data = <<>>
    /\ result = Err("pending")
    /\ add_calls = <<>>
    /\ type_name = {}
    /\ prev = {}
    /\ DiffIdle
    /\ ListIdle
    /\ current_mode = Idle
    /\ filtered_type_list = <<>>
    /\ selected_row = usize_MAX
    /\ search_filter = ""
    /\ rx_ui = <<>>
    /\ pdb_files \in SlotFillings
    /\ \E cmd \in FilterCommands :
           /\ tx_worker = <<cmd>>
           /\ sent = <<cmd>>
    /\ issued = 0
    /\ produced = <<>>
    /\ running = {}

FilterNext == worker_thread

FilterSpec == FilterInit /\ [][FilterNext]_vars

\* ---- the diff engine on its own
\* Two texts are handed to the diff engine.
DiffInit ==
    /\ file_status = "ok"
    /\ stream = <<>>
    /\ load_result = "none"
    /\ pending_forwarders = {}
    /\ complete_type_list = <<>>
    /\ forwarder_to_complete_type = EmptyMap
    /\ pc = "idle"
    /\ type_index = DefaultTypeIndex
    /\ reconstruct_dependencies = FALSE
    /\ needed_types = {}
    /\ processed_types = {}
    /\ type_data = <<>>
    /\ dependencies_data = <<>>
    /\ result = Err("pending")
    /\ add_calls = <<>>
    /\ type_name = {}
    /\ prev = {}
    /\ AppStart
    /\ old_text \in Texts
    /\ new_text \in Texts
    /\ type_diff = {}
    /\ ListIdle

\* The diff engine returns.
diff_type ==
    /\ type_diff = {}
    /\ \E d \in Diffs(old_text, new_text) : type_diff' = {d}
    /\ UNCHANGED <<old_text, new_text>>
    /\ UNCHANGED <<pdbVars, callVars, appVars, listVars>>

DiffNext == diff_type

DiffSpec == DiffInit /\ [][DiffNext]_vars

\* No more commands than this are ever sent: the user's, and at most two by
\* process_ui_commands for each of them.
MaxSent == 3 * MaxCommands

\* ------------------------------------------------------------ properties
Range(f) == {f[x] : x \in DOMAIN f}

ListedIndices == {complete_type_list[i][2] : i \in DOMAIN complete_type_list}

IsForwardDeclaration(idx) ==
    idx \in DOMAIN stream /\ IsTagRecord(stream[idx]) /\ stream[idx].forward_reference

IsCompleteDefinition(idx) ==
    idx \in DOMAIN stream /\ IsTagRecord(stream[idx]) /\ ~stream[idx].forward_reference

\* C1: after a successful load every key of the forwarder map is the index of
\* a forward-declared class, union or enumeration, and every value is the index
\* of a complete (never a forward-declared) record of the same name that is in
\* complete_type_list.
C1_ForwarderMapSound ==
    load_result = "ok" =>
        \A k \in DOMAIN forwarder_to_complete_type :
            LET v == forwarder_to_complete_type[k] IN
            /\ IsForwardDeclaration(k)
            /\ IsCompleteDefinition(v)
            /\ ~IsForwardDeclaration(v)
            /\ stream[v].name = stream[k].name
            /\ v \in ListedIndices

\* A loaded container with a resolved forwarder and an unresolved one.
C1_Witness ==
    /\ load_result = "ok"
    /\ forwarder_to_complete_type # EmptyMap
    /\ \E k \in DOMAIN stream :
           IsForwardDeclaration(k) /\ k \notin DOMAIN forwarder_to_complete_type

\* C2: a reconstruction with dependencies terminates: a call that is in its
\* dependency loop leaves it, also when types reference each other in a cycle
\* or reference a higher index.
C2_Terminates == (pc = "loop") ~> (pc # "loop")

\* A call with dependencies has returned for a type on a reference cycle that
\* also pulled in a type of a higher index.
C2_Witness ==
    /\ pc = "done"
    /\ reconstruct_dependencies
    /\ type_index \in needed_types
    /\ \E i \in DOMAIN add_calls : add_calls[i] > type_index

IsInjective(seq) ==
    \A i, j \in DOMAIN seq : seq[i] = seq[j] => i = j

SeqRange(seq) == {seq[i] : i \in DOMAIN seq}

\* C3: during a reconstruction with dependencies no index is handed to the
\* renderer twice, the processed set is the requested index plus one index per
\* completed iteration, and the requested index is never rendered as a
\* dependency.
C3_RenderedAtMostOnce ==
    (reconstruct_dependencies
     /\ (pc \in {"loop", "done"} \/ (pc = "failed" /\ add_calls # <<>>))) =>
        LET rendered == IF pc = "failed" THEN SubSeq(add_calls, 1, Len(add_calls) - 1)
                        ELSE add_calls
        IN  /\ IsInjective(add_calls)
            /\ type_index \notin SeqRange(add_calls)
            /\ processed_types = {type_index} \cup SeqRange(rendered)
            /\ Cardinality(processed_types) = 1 + Len(rendered)

\* Two dependencies were rendered and one of them references the requested
\* index back.
C3_Witness ==
    /\ pc = "done"
    /\ reconstruct_dependencies
    /\ Len(add_calls) >= 2
    /\ \E i \in DOMAIN add_calls :
           type_index \in RenderRefs(stream, forwarder_to_complete_type, add_calls[i])

Refs(idx) == RenderRefs(stream, forwarder_to_complete_type, idx)

Text(idx) == RenderText(stream, forwarder_to_complete_type, idx)

\* The least set that contains S and the references of each of its members.
RECURSIVE ReferenceClosure(_)
ReferenceClosure(S) ==
    LET next == S \cup UNION {Refs(i) : i \in S} IN
    IF next = S THEN S ELSE ReferenceClosure(next)

\* C4: when a reconstruction with dependencies returns a text, the needed set
\* is the set of all indices the requested type references directly or
\* transitively, all of them are processed, and each of them other than the
\* requested index has its rendering in the dependency buffer.
C4_ClosureComplete ==
    (pc = "done" /\ reconstruct_dependencies) =>
        /\ needed_types = ReferenceClosure(Refs(type_index))
        /\ needed_types \subseteq processed_types
        /\ \A i \in needed_types \ {type_index} :
               /\ i \in SeqRange(add_calls)
               /\ SeqRange(Text(i)) \subseteq SeqRange(dependencies_data)

\* A returned call whose closure has a type that the requested type only
\* references through another one.
C4_Witness ==
    /\ pc = "done"
    /\ reconstruct_dependencies
    /\ needed_types \ ({type_index} \cup Refs(type_index)) # {}

\* C5: each iteration of the dependency loop hands the renderer the greatest
\* index of needed minus processed as they stand when the iteration starts,
\* and the loop is left with a text exactly when that difference is empty.
C5_SelectsGreatest ==
    [][pc = "loop" =>
        LET d == needed_types \ processed_types IN
        IF d = {}
        THEN pc' = "done" /\ add_calls' = add_calls
        ELSE /\ pc' # "done"
             /\ Len(add_calls') = Len(add_calls) + 1
             /\ add_calls'[Len(add_calls')] \in d
             /\ \A y \in d : y <= add_calls'[Len(add_calls')]]_vars

\* The second iteration selected an index that the first one merged in, below
\* the greatest needed index, which was processed already.
C5_Witness ==
    /\ pc = "done"
    /\ reconstruct_dependencies
    /\ Len(add_calls) = 2
    /\ add_calls[2] \notin Refs(type_index)
    /\ add_calls[2] < Max(needed_types)

\* The renderings of the indices of seq, one after the other.
RECURSIVE TextOfAll(_)
TextOfAll(seq) ==
    IF seq = <<>> THEN <<>> ELSE Text(Head(seq)) \o TextOfAll(Tail(seq))

\* C6: the text a reconstruction with dependencies returns is the renderings
\* of the dependencies in the order they were processed, followed by the
\* rendering of the requested index alone.
C6_DependenciesThenType ==
    (pc = "done" /\ reconstruct_dependencies) =>
        /\ result.ok
        /\ result.text = TextOfAll(add_calls) \o Text(type_index)
        /\ SubSeq(result.text, Len(result.text) - Len(Text(type_index)) + 1,
                  Len(result.text)) = Text(type_index)

\* A returned text with two dependency blocks before the requested type.
C6_Witness ==
    /\ pc = "done"
    /\ reconstruct_dependencies
    /\ Len(dependencies_data) = 2
    /\ Text(type_index) # <<>>
    /\ dependencies_data[1] # dependencies_data[2]
    /\ dependencies_data[2] # type_data[1]

\* C7: a reconstruction without dependencies returns the rendering of the
\* requested index and nothing else: no dependency is rendered and the
\* dependency loop is not entered.
C7_WithoutDependencies ==
    /\ pc = "loop" => reconstruct_dependencies
    /\ (Returned /\ ~reconstruct_dependencies) =>
           /\ add_calls = <<>>
           /\ dependencies_data = <<>>
           /\ pc = "done" => result = Ok(Text(type_index))

\* A call without dependencies returned for a type that references others.
C7_Witness ==
    /\ pc = "done"
    /\ ~reconstruct_dependencies
    /\ Refs(type_index) # {}

\* C8: a reconstruction that repeats the previous one (same index, same flag,
\* same loaded container) has rendered the same dependencies in the same
\* order and returns the text the previous one returned.
C8_Deterministic ==
    Returned =>
        \A p \in prev :
            p.type_index = type_index =>
                /\ p.rendered = add_calls
                /\ p.result = result

\* A repeated call with dependencies returned a text with dependencies.
C8_Witness ==
    /\ pc = "done"
    /\ reconstruct_dependencies
    /\ \E p \in prev : p.type_index = type_index
    /\ Len(add_calls) >= 2

\* C9: a forward declaration F with a complete definition C of the same name
\* is in the forwarder map after the load, mapped to C when C is the only
\* definition of that name, and reconstructing F's index returns what
\* reconstructing C's index returns.
C9_ForwarderRendersAsDefinition ==
    load_result = "ok" =>
        /\ \A f, c \in DOMAIN stream :
               (IsForwardDeclaration(f) /\ IsCompleteDefinition(c)
                /\ stream[f].name = stream[c].name) =>
                   /\ f \in DOMAIN forwarder_to_complete_type
                   /\ (\A d \in DOMAIN stream :
                           (IsCompleteDefinition(d) /\ stream[d].name = stream[c].name)
                               => d = c)
                       => forwarder_to_complete_type[f] = c
        /\ Returned =>
               \A p \in prev : Aliases(p.type_index, type_index) => p.result = result

\* C10: no step of a reconstruction, by name or by index, returning a text or
\* an error, changes the forwarder map or the complete-type list of the loaded
\* container.
C10_ReconstructReadsOnly ==
    [][load_result = "ok" =>
        /\ forwarder_to_complete_type' = forwarder_to_complete_type
        /\ complete_type_list' = complete_type_list]_vars

\* A second call in a row has failed on a container with a forwarder map and
\* a type list.
C10_Witness ==
    /\ pc = "failed"
    /\ prev # {}
    /\ forwarder_to_complete_type # EmptyMap
    /\ complete_type_list # <<>>

\* C11: after a successful load complete_type_list has exactly one entry for
\* each record that parses to a complete class, union or enumeration, in the
\* order of the type stream, and no entry for any other record.
C11_CompleteTypeListExact ==
    load_result = "ok" =>
        /\ ListedIndices = {i \in DOMAIN stream : IsCompleteDefinition(i)}
        /\ \A i, j \in DOMAIN complete_type_list :
               i < j => complete_type_list[i][2] < complete_type_list[j][2]

\* A loaded stream with two definitions of one name, listed both, and a
\* record that is not listed.
C11_Witness ==
    /\ load_result = "ok"
    /\ Len(complete_type_list) = 2
    /\ complete_type_list[1][1] = complete_type_list[2][1]
    /\ \E i \in DOMAIN stream : ~IsCompleteDefinition(i)

\* C12: the display name of a listed record is its decoded name, except that
\* an anonymous record at index i is listed as "_unnamed_<i>"; two anonymous
\* records never share a display name. This holds in every state after the
\* load, so the name of a record does not change within one load.
C12_DisplayNames ==
    load_result = "ok" =>
        /\ \A k \in DOMAIN complete_type_list :
               LET name == complete_type_list[k][1]
                   idx == complete_type_list[k][2]
               IN  IF stream[idx].name = UnnamedTag
                   THEN name = "_unnamed_" \o ToString(idx)
                   ELSE name = stream[idx].name
        /\ \A k, l \in DOMAIN complete_type_list :
               (k # l /\ stream[complete_type_list[k][2]].name = UnnamedTag
                      /\ stream[complete_type_list[l][2]].name = UnnamedTag)
                   => complete_type_list[k][1] # complete_type_list[l][1]

\* Two anonymous records and a named one are listed, and a call has returned
\* since the load.
C12_Witness ==
    /\ load_result = "ok"
    /\ Returned
    /\ Len(complete_type_list) = 3
    /\ Cardinality({k \in DOMAIN complete_type_list :
                       stream[complete_type_list[k][2]].name = UnnamedTag}) = 2

\* The complete definitions whose name or unique name is the given name.
DefinitionsNamed(name) ==
    {i \in DOMAIN stream :
        IsCompleteDefinition(i)
        /\ (stream[i].name = name \/ name \in stream[i].unique_name)}

\* The forward declarations whose name or unique name is the given name.
ForwardDeclarationsNamed(name) ==
    {i \in DOMAIN stream :
        IsForwardDeclaration(i)
        /\ (stream[i].name = name \/ name \in stream[i].unique_name)}

\* C13: for every (display name, index) entry of complete_type_list,
\* synthetic "_unnamed_<index>" names included, reconstruct_type_by_name of
\* the display name does not fail with "type not found" and reconstructs an
\* index that the list associates with that display name.
C13_ListedNamesAreFound ==
    Returned =>
        \A n \in type_name :
            (\E k \in DOMAIN complete_type_list : complete_type_list[k][1] = n) =>
                /\ result.error # "type not found"
                /\ \E k \in DOMAIN complete_type_list :
                       complete_type_list[k] = <<n, type_index>>

\* C14: reconstruct_type_by_name fails with "type not found" exactly when no
\* complete class, union or enumeration record has the given name as its name
\* or unique name, and then nothing has been rendered.
C14_NotFoundExact ==
    Returned =>
        \A n \in type_name :
            /\ result.error = "type not found" <=> DefinitionsNamed(n) = {}
            /\ result.error = "type not found" =>
                   /\ pc = "failed"
                   /\ result.text = <<>>
                   /\ add_calls = <<>>
                   /\ type_data = <<>>
                   /\ dependencies_data = <<>>

\* A lookup has failed with "type not found" in a container that lists
\* definitions under other names, and the name looked up is carried by none.
C14_Witness ==
    /\ pc = "failed"
    /\ type_name = {"?AW4Bar@@"}
    /\ result.error = "type not found"
    /\ Len(complete_type_list) >= 2

\* C15: reconstruct_type_by_name never selects a forward declaration: when a
\* complete definition carries the name its index is the one reconstructed,
\* forward declarations of that name notwithstanding, and when only forward
\* declarations carry it the call fails with "type not found".
C15_NeverSelectsForwardDeclaration ==
    \A n \in type_name :
        /\ ~IsForwardDeclaration(type_index)
        /\ DefinitionsNamed(n) # {} => type_index \in DefinitionsNamed(n)
        /\ (ForwardDeclarationsNamed(n) # {} /\ DefinitionsNamed(n) = {}) =>
               /\ pc = "failed"
               /\ result.error = "type not found"

\* A lookup by name has returned the definition although a forward
\* declaration of the same name comes later in the stream.
C15_Witness ==
    /\ pc = "done"
    /\ type_name = {"Foo"}
    /\ \E f \in ForwardDeclarationsNamed("Foo") : f > type_index

\* The stream with every record that does not parse replaced by a record
\* the loader has nothing to do for; the indices of the others are kept.
WithoutMalformed(s) ==
    [i \in DOMAIN s |-> IF s[i].kind = MalformedRecord.kind THEN OtherRecord
                        ELSE s[i]]

\* C16: a record that does not parse is skipped: the load fails only when
\* the file cannot be opened, its header or type stream cannot be read or the
\* record iterator fails, and a load that succeeds indexes the other records
\* as it would without the malformed ones.
C16_MalformedRecordSkipped ==
    load_result # "none" =>
        /\ load_result = "err" <=> file_status # "ok"
        /\ load_result = "ok" =>
               LET pdb_file == LoadSymbols(WithoutMalformed(stream)) IN
               /\ complete_type_list = pdb_file.complete_type_list
               /\ forwarder_to_complete_type = pdb_file.forwarder_to_complete_type
               /\ \A i \in DOMAIN stream :
                      stream[i].kind = MalformedRecord.kind =>
                          /\ i \notin ListedIndices
                          /\ i \notin DOMAIN forwarder_to_complete_type

\* A load has succeeded on a stream with a malformed record between a
\* forward declaration and its definition.
C16_Witness ==
    /\ load_result = "ok"
    /\ Len(stream) = 3
    /\ stream[2].kind = MalformedRecord.kind
    /\ IsForwardDeclaration(1)
    /\ forwarder_to_complete_type = MapInsert(EmptyMap, 1, 3)
    /\ complete_type_list # <<>>

\* C17: a forward declaration whose name no complete definition has gets no
\* entry in the forwarder map and does not make the load fail; every forward
\* declaration whose name a complete definition has is resolved.
C17_UnmatchedForwarderOmitted ==
    /\ (load_result = "err") => file_status # "ok"
    /\ load_result = "ok" =>
           \A f \in DOMAIN stream :
               IsForwardDeclaration(f) =>
                   (f \in DOMAIN forwarder_to_complete_type
                    <=> \E c \in DOMAIN stream :
                            /\ IsCompleteDefinition(c)
                            /\ stream[c].name = stream[f].name)

\* A load has succeeded on a stream with a resolved forward declaration
\* followed by one that has no definition.
C17_Witness ==
    /\ load_result = "ok"
    /\ \E f, g \in DOMAIN stream :
           /\ g < f
           /\ IsForwardDeclaration(f)
           /\ IsForwardDeclaration(g)
           /\ f \notin DOMAIN forwarder_to_complete_type
           /\ g \in DOMAIN forwarder_to_complete_type

\* C18: load_from_file returns an error and no PdbFile, not even one built
\* in part, when the file does not open, its header cannot be read or it has
\* no type stream; a PdbFile is returned only for a file whose whole pass
\* succeeded, and it is the one that pass built.
C18_LoadAllOrNothing ==
    /\ (load_result # "none" /\ file_status # "ok") =>
           /\ load_result = "err"
           /\ complete_type_list = <<>>
           /\ forwarder_to_complete_type = EmptyMap
    /\ load_result = "ok" =>
           /\ file_status = "ok"
           /\ complete_type_list = LoadSymbols(stream).complete_type_list
           /\ forwarder_to_complete_type =
                  LoadSymbols(stream).forwarder_to_complete_type
    /\ load_result = "err" => pc = "idle"

\* The load of a file without a type stream has failed.
C18_Witness ==
    /\ load_result = "err"
    /\ file_status = "no_type_stream"

\* C19: a reconstruction returns a text exactly when the requested type and
\* every dependency the loop came to were rendered; when one of them fails
\* the call returns the error and an empty text, whatever the dependency
\* buffer holds.
C19_RenderErrorReturnsNoText ==
    (Returned /\ result.error # "type not found") =>
        /\ result.ok <=>
               \A i \in {type_index} \cup SeqRange(add_calls) :
                   RenderOk(stream, forwarder_to_complete_type, i)
        /\ ~result.ok =>
               /\ pc = "failed"
               /\ result = Err("render error")
        /\ result.ok => pc = "done"

\* A dependency failed to render after another one had been appended to the
\* dependency buffer.
C19_Witness ==
    /\ pc = "failed"
    /\ dependencies_data # <<>>
    /\ type_data # <<>>
    /\ ~RenderOk(stream, forwarder_to_complete_type, add_calls[Len(add_calls)])

\* C20: every command sent to the backend has, once executed, pushed exactly
\* one result to the result channel, and the result tells which command it
\* answers: two commands that differ are never answered by the same result.
C20_EveryCommandAnswered ==
    /\ \A k \in DOMAIN produced : Len(produced[k]) = 1
    /\ \A j, k \in DOMAIN produced :
           sent[j] # sent[k] => produced[j] # produced[k]

\* The step is the worker running the command cmd.
WorkerRuns(cmd) ==
    /\ tx_worker # <<>>
    /\ Head(tx_worker) = cmd
    /\ Len(produced') = Len(produced) + 1

\* C21: when the worker runs a LoadPDB whose file does not load, no slot
\* changes: the slot keeps the file it held and the other slot is left
\* alone. When the file loads, only the slot of the command changes, to the
\* new file. The user interface, on the failed result, sends no command.
C21_FailedLoadKeepsSlot ==
    [][/\ \A slot \in {PDB_MAIN_SLOT, PDB_DIFF_SLOT}, path \in PdbPaths :
              WorkerRuns(LoadPDB(slot, path)) =>
                  IF FileAt(path).status = "ok"
                  THEN /\ slot \in DOMAIN pdb_files'
                       /\ pdb_files'[slot] = path
                       /\ \A o \in {PDB_MAIN_SLOT, PDB_DIFF_SLOT} \ {slot} :
                              /\ o \in DOMAIN pdb_files' <=> o \in DOMAIN pdb_files
                              /\ o \in DOMAIN pdb_files => pdb_files'[o] = pdb_files[o]
                  ELSE /\ pdb_files' = pdb_files
                       /\ ~produced'[Len(produced')][1].value.ok
       /\ (rx_ui # <<>> /\ rx_ui' = Tail(rx_ui)
           /\ Head(rx_ui).res = "LoadPDBResult" /\ ~Head(rx_ui).value.ok) =>
              /\ sent' = sent
              /\ current_mode' = current_mode
      ]_vars

\* The last command run is a load that failed, for a slot that holds a file,
\* while the other slot holds one too.
C21_Witness ==
    /\ produced # <<>>
    /\ sent[Len(produced)] = LoadPDB(PDB_MAIN_SLOT, "bad.pdb")
    /\ ~produced[Len(produced)][1].value.ok
    /\ DOMAIN pdb_files = {PDB_MAIN_SLOT, PDB_DIFF_SLOT}
    /\ pdb_files[PDB_MAIN_SLOT] # pdb_files[PDB_DIFF_SLOT]

\* C22: a failed command does not stop the backend: every command run
\* after a command that failed has been answered, by one result of its own.
C22_BackendKeepsRunning ==
    \A j, k \in DOMAIN produced :
        (j < k /\ \E i \in DOMAIN produced[j] : IsFailure(produced[j][i]))
            => Len(produced[k]) = 1

\* The commands run so far that pushed a result, and the one whose result is
\* the oldest on the result channel: results are polled in the order pushed.
AnsweredCommands == {k \in DOMAIN produced : produced[k] # <<>>}

PolledCommand ==
    LET n == Cardinality(AnsweredCommands) - Len(rx_ui) + 1 IN
    sent[CHOOSE k \in AnsweredCommands :
             Cardinality({j \in AnsweredCommands : j <= k}) = n]

\* The step is process_ui_commands handling a result of the kind res.
Polls(res) ==
    /\ rx_ui # <<>>
    /\ rx_ui' = Tail(rx_ui)
    /\ Head(rx_ui).res = res

\* C23: a result that answers a request made obsolete by a later mode change
\* is discarded: a reconstruct result polled when the application is not
\* browsing, a diff result polled when it is not comparing, and the filter
\* result of a single slot polled when it is comparing leave the mode, the
\* displayed text and the filtered list as they are.
C23_StaleResultsDiscarded ==
    [][/\ (Polls("ReconstructTypeResult") /\ current_mode.mode # "Browsing")
              => current_mode' = current_mode
       /\ (Polls("DiffTypeResult") /\ current_mode.mode # "Comparing")
              => current_mode' = current_mode
       /\ (Polls("UpdateFilteredTypes") /\ current_mode.mode = "Comparing"
           /\ PolledCommand.cmd = "UpdateTypeFilter")
              => filtered_type_list' = filtered_type_list
      ]_vars

\* C24: a PdbFile is handed out only when the parallel pass has run on every
\* forwarder, so every query reads the complete forwarder map: the one the
\* whole pass builds.
C24_QueriesSeeCompleteForwarderMap ==
    /\ load_result = "ok" =>
           /\ pending_forwarders = {}
           /\ forwarder_to_complete_type =
                  LoadSymbols(stream).forwarder_to_complete_type
    /\ pc # "idle" => load_result = "ok"

\* Two forwarders were resolved by the pass, and a query for one of them has
\* returned the text of its definition.
C24_Witness ==
    /\ load_result = "ok"
    /\ Cardinality(DOMAIN forwarder_to_complete_type) = 2
    /\ pc = "done"
    /\ type_index \in DOMAIN forwarder_to_complete_type
    /\ result.text # <<>>

\* The commands in flight that read a slot.
ReadersOf(slot) == {cmd \in running : slot \in ReadSlots(cmd)}

\* What a slot holds: the path of its file, or nothing.
SlotContent(files, slot) == IF slot \in DOMAIN files THEN {files[slot]} ELSE {}

\* C25: a slot's file is never unloaded or replaced while a command that
\* reads the slot (a reconstruction, a diff, a filter) is executing: from the
\* moment the worker takes such a command to the moment it returns, the slot
\* holds the same file.
C25_NoUnloadDuringRead ==
    [][\A slot \in {PDB_MAIN_SLOT, PDB_DIFF_SLOT} :
         SlotContent(pdb_files', slot) # SlotContent(pdb_files, slot)
             => ReadersOf(slot) = {}]_vars

\* A reconstruction in slot 0 has run to its result on a loaded file, and the
\* load sent right after it has then replaced that file.
C25_Witness ==
    \E k \in DOMAIN produced :
        /\ k > 1
        /\ sent[k].cmd = "LoadPDB"
        /\ sent[k].slot = PDB_MAIN_SLOT
        /\ produced[k][1].value.ok
        /\ sent[k - 1].cmd = "ReconstructTypeByIndex"
        /\ sent[k - 1].slot = PDB_MAIN_SLOT
        /\ Len(produced[k - 1]) = 1
        /\ produced[k - 1][1].value.ok
        /\ \E j \in 1..(k - 2) :
               /\ sent[j].cmd = "LoadPDB"
               /\ sent[j].slot = PDB_MAIN_SLOT
               /\ sent[j].path # sent[k].path
               /\ produced[j][1].value.ok

\* Both slots hold a loaded file.
BothSlotsLoaded(files) == {PDB_MAIN_SLOT, PDB_DIFF_SLOT} \subseteq DOMAIN files

\* The commands a step sends.
NewlySent == SubSeq(sent', Len(sent) + 1, Len(sent'))

\* C26: an UpdateTypeFilterMerged command is sent only while both slots
\* hold a loaded file, and the worker runs it only while both slots hold a
\* loaded file.
C26_MergedFilterNeedsBothSlots ==
    [][/\ (\E k \in DOMAIN NewlySent :
               NewlySent[k].cmd = "UpdateTypeFilterMerged")
           => BothSlotsLoaded(pdb_files)
       /\ \A cmd \in Range(tx_worker) :
              cmd.cmd = "UpdateTypeFilterMerged" /\ WorkerRuns(cmd)
                  => BothSlotsLoaded(pdb_files)]_vars

\* The pattern occurs in the name at some offset, character for character,
\* letters compared without their case when the search is case-insensitive.
NameMatches(name, pattern, case_insensitive) ==
    LET n == Chars(name)
        p == Chars(pattern)
        same(a, b) == IF case_insensitive THEN ToLowerChar(a) = ToLowerChar(b)
                      ELSE a = b
    IN  \E offset \in 0..(Len(n) - Len(p)) :
            \A i \in 1..Len(p) : same(n[offset + i], p[i])

\* The k-th smallest element of a set of positions.
KthOf(positions, k) ==
    CHOOSE i \in positions : Cardinality({j \in positions : j <= i}) = k

\* C27: the worker answers UpdateTypeFilter on a slot with one list: the
\* entries of the slot's complete-type list whose display name contains the
\* pattern (case-insensitively if the command says so), each as often as the
\* list has it and in the order of the list; the whole list for the empty
\* pattern.
C27_FilterResultExact ==
    (produced # <<>> /\ sent[1].cmd = "UpdateTypeFilter") =>
        LET cmd == sent[1]
            list == SlotTypeList(pdb_files, cmd.slot)
            matching == {i \in DOMAIN list :
                             NameMatches(list[i][1], cmd.search_filter,
                                         cmd.case_insensitive)}
        IN  /\ Len(produced[1]) = 1
            /\ produced[1][1].res = "UpdateFilteredTypes"
            /\ LET filtered == produced[1][1].value IN
               /\ Len(filtered) = Cardinality(matching)
               /\ \A k \in DOMAIN filtered :
                      filtered[k] = list[KthOf(matching, k)]
               /\ (cmd.search_filter = "" => filtered = list)

\* The pattern "Foo", case-insensitive, on the list Foo, foobar, Bar, Foo
\* has been answered with Foo, foobar, Foo.
C27_Witness ==
    /\ sent = <<UpdateTypeFilter(PDB_MAIN_SLOT, "Foo", TRUE)>>
    /\ PDB_MAIN_SLOT \in DOMAIN pdb_files
    /\ pdb_files[PDB_MAIN_SLOT] = "c.pdb"
    /\ produced = <<<<UpdateFilteredTypes(
                          <<<<"Foo", 1>>, <<"foobar", 2>>, <<"Foo", 4>>>>)>>>>

\* The display names of a slot's complete-type list that match a pattern.
MatchingNames(files, slot, pattern, case_insensitive) ==
    LET list == SlotTypeList(files, slot) IN
    {list[i][1] : i \in {j \in DOMAIN list :
                             NameMatches(list[j][1], pattern, case_insensitive)}}

\* C28: the worker answers UpdateTypeFilterMerged over two slots with one
\* list whose display names are the names matching the pattern in one slot
\* or the other, and no display name is in it twice.
C28_MergedFilterDeduplicated ==
    (produced # <<>> /\ sent[1].cmd = "UpdateTypeFilterMerged") =>
        LET cmd == sent[1] IN
        /\ Len(produced[1]) = 1
        /\ produced[1][1].res = "UpdateFilteredTypes"
        /\ LET merged == produced[1][1].value IN
           /\ {merged[k][1] : k \in DOMAIN merged}
                  = UNION {MatchingNames(pdb_files, cmd.slots[n],
                                         cmd.search_filter,
                                         cmd.case_insensitive) :
                               n \in DOMAIN cmd.slots}
           /\ \A k, l \in DOMAIN merged :
                  merged[k][1] = merged[l][1] => k = l

\* Both slots define Foo, only slot 0 defines Bar, and the merged list for
\* the empty pattern has Foo once and Bar once.
C28_Witness ==
    /\ sent = <<UpdateTypeFilterMerged(<<PDB_MAIN_SLOT, PDB_DIFF_SLOT>>, "",
                                       FALSE)>>
    /\ pdb_files = [slot \in {PDB_MAIN_SLOT, PDB_DIFF_SLOT} |->
                        IF slot = PDB_MAIN_SLOT THEN "a.pdb" ELSE "b.pdb"]
    /\ produced # <<>>
    /\ LET merged == produced[1][1].value IN
       /\ Cardinality({k \in DOMAIN merged : merged[k][1] = "Foo"}) = 1
       /\ Cardinality({k \in DOMAIN merged : merged[k][1] = "Bar"}) = 1

\* What the diff engine returned.
TheDiff == CHOOSE d \in type_diff : TRUE

\* C29: the diff of a text with itself has one entry for each line of the
\* text, in order, each unchanged and with the line's index as its old and as
\* its new index, and its merged text is the text.
C29_DiffOfEqualTexts ==
    (type_diff # {} /\ old_text = new_text) =>
        /\ Len(TheDiff.metadata) = Len(old_text)
        /\ \A k \in DOMAIN TheDiff.metadata :
               TheDiff.metadata[k] = DiffEntry({k - 1}, {k - 1}, "unchanged")
        /\ TheDiff.data = old_text

\* A text of three lines, one of them twice, has been diffed with itself.
C29_Witness ==
    /\ type_diff # {}
    /\ old_text = <<"line1", "line2", "line1">>
    /\ new_text = old_text
    /\ Len(TheDiff.metadata) = 3

\* The texts have as many lines as each other and differ in one line only.
DifferingLines == {i \in DOMAIN old_text : old_text[i] # new_text[i]}

OneLineChanged ==
    /\ Len(old_text) = Len(new_text)
    /\ Cardinality(DifferingLines) = 1

\* The metadata has one entry for each line, in order: an unchanged one for
\* each identical line and a modified-pair one for each differing line, each
\* carrying the line's index as its old and as its new index.
OneEntryPerLine ==
    /\ Len(TheDiff.metadata) = Len(old_text)
    /\ \A k \in DOMAIN TheDiff.metadata :
          TheDiff.metadata[k] =
              DiffEntry({k - 1}, {k - 1},
                        IF k \in DifferingLines THEN "modified-pair"
                        ELSE "unchanged")

ChangedLineOccursOnce ==
    \A i \in DifferingLines :
        \A j \in DOMAIN old_text \ {i} :
            /\ old_text[j] # old_text[i] /\ old_text[j] # new_text[i]
            /\ new_text[j] # old_text[i] /\ new_text[j] # new_text[i]

ResolvedForwarders ==
    LET forwarders == ScanStream(stream, Len(stream)).forwarders IN
    {forwarders[i][2] : i \in DOMAIN forwarders \ pending_forwarders}

\* C31: whatever the order in which the resolution pass takes the pending
\* forwarders, the map it has built so far is the map of the in-order pass
\* cut down to the forwarders already taken; so when none is pending the map
\* is the same for every schedule.
C31_ResolutionOrderIrrelevant ==
    load_result \in {"resolving", "ok"} =>
        LET final == LoadSymbols(stream).forwarder_to_complete_type
            keys == DOMAIN final \cap ResolvedForwarders
        IN  forwarder_to_complete_type = [k \in keys |-> final[k]]

\* The second of two forwarders that both have a definition has been
\* resolved while the first is still pending.
C31_Witness ==
    /\ load_result = "resolving"
    /\ pending_forwarders = {1}
    /\ Cardinality(DOMAIN forwarder_to_complete_type) = 1
    /\ Cardinality(DOMAIN LoadSymbols(stream).forwarder_to_complete_type) = 2

\* The complete definitions that have the raw name of the record at idx.
DefinitionsOfNameAt(idx) ==
    {c \in DOMAIN stream :
        IsCompleteDefinition(c) /\ stream[c].name = stream[idx].name}

\* C32: after a successful load, every forward declaration whose raw name
\* (the anonymous name included) some complete definition has is mapped to
\* the definition of that name that comes last in the stream, whichever kind
\* of record it is; so all forward declarations of one name share their
\* target.
C32_LastDefinitionWins ==
    load_result = "ok" =>
        \A f \in DOMAIN stream :
            (IsForwardDeclaration(f) /\ DefinitionsOfNameAt(f) # {}) =>
                /\ f \in DOMAIN forwarder_to_complete_type
                /\ forwarder_to_complete_type[f] = Max(DefinitionsOfNameAt(f))

\* A load has succeeded on a stream with two complete definitions of one
\* name and a forward declaration of it, mapped to the second definition.
C32_Witness ==
    /\ load_result = "ok"
    /\ \E f \in DOMAIN forwarder_to_complete_type :
           /\ Cardinality(DefinitionsOfNameAt(f)) = 2
           /\ \E c \in DefinitionsOfNameAt(f) :
                  c < forwarder_to_complete_type[f]

\* All results pushed so far, in the order the worker pushed them.
RECURSIVE PushedResults(_)
PushedResults(n) ==
    IF n = 0 THEN <<>> ELSE PushedResults(n - 1) \o produced[n]

\* seq ends with tail.
IsSuffix(tail, seq) ==
    /\ Len(tail) <= Len(seq)
    /\ tail = SubSeq(seq, Len(seq) - Len(tail) + 1, Len(seq))

\* The kind of result each kind of command is answered with.
ResultKindOf(cmd) ==
    CASE cmd.cmd = "LoadPDB" -> {"LoadPDBResult"}
      [] cmd.cmd = "UnloadPDB" -> {}
      [] cmd.cmd \in {"UpdateTypeFilter", "UpdateTypeFilterMerged"} ->
           {"UpdateFilteredTypes"}
      [] cmd.cmd = "ReconstructTypeByIndex" -> {"ReconstructTypeResult"}
      [] cmd.cmd = "DiffTypeByName" -> {"DiffTypeResult"}

\* C33: the worker has at most one command in hand; the commands it has
\* finished, the one in hand and the ones waiting are, in this order, the
\* commands sent; the results not yet polled are the last ones pushed, in the
\* order of their commands; and a filter sent right after a load that
\* succeeds is answered from the file that load has put in the slot.
C33_CommandsRunInOrder ==
    /\ Cardinality(running) <= 1
    /\ Len(sent) = Len(produced) + Cardinality(running) + Len(tx_worker)
    /\ IsSuffix(tx_worker, sent)
    /\ \A cmd \in running : cmd = sent[Len(produced) + 1]
    /\ IsSuffix(rx_ui, PushedResults(Len(produced)))
    /\ \A k \in DOMAIN produced :
           {produced[k][i].res : i \in DOMAIN produced[k]} = ResultKindOf(sent[k])
    /\ \A k \in DOMAIN produced :
           (/\ k > 1
            /\ sent[k].cmd = "UpdateTypeFilter"
            /\ sent[k - 1].cmd = "LoadPDB"
            /\ sent[k - 1].slot = sent[k].slot
            /\ produced[k - 1][1].value.ok) =>
               produced[k][1].value =
                   FilteredTypes(MapInsert(EmptyMap, sent[k].slot, sent[k - 1].path),
                                 sent[k].slot, sent[k].search_filter,
                                 sent[k].case_insensitive)

\* A filter typed right after a second file was opened, both still waiting
\* behind the first load, has been answered from the second file.
C33_Witness ==
    \E k \in DOMAIN produced :
        /\ k > 2
        /\ sent[k] = UpdateTypeFilter(PDB_MAIN_SLOT, "Foo", FALSE)
        /\ sent[k - 1] = LoadPDB(PDB_MAIN_SLOT, "b.pdb")
        /\ sent[k - 2] = LoadPDB(PDB_MAIN_SLOT, "a.pdb")
        /\ produced[k] = <<UpdateFilteredTypes(<<<<"Foo", 2>>>>)>>

\* No command is waiting or running and no result waits to be polled.
Quiescent == tx_worker = <<>> /\ rx_ui = <<>> /\ running = {}

\* C34: whenever nothing is in flight, the application is in Comparing mode
\* exactly when slot 1 holds a file, and so never in Browsing mode while
\* slot 1 holds one.
C34_ModeMatchesDiffSlot ==
    Quiescent =>
        /\ current_mode.mode = "Comparing" <=> PDB_DIFF_SLOT \in DOMAIN pdb_files
        /\ current_mode.mode = "Browsing" => PDB_DIFF_SLOT \notin DOMAIN pdb_files

\* The step is process_ui_commands handling a successful load of a slot.
PollsLoadedSlot(pdb_slot) ==
    /\ Polls("LoadPDBResult")
    /\ Head(rx_ui).value.ok
    /\ Head(rx_ui).value.text = pdb_slot

\* C35: handling a successful load result of slot 0 leaves the application
\* in Browsing mode with empty content and sends UnloadPDB(1) exactly if the
\* application was in Comparing mode, followed by UpdateTypeFilter(0) with
\* the empty pattern, case-sensitive; nothing else is sent.
C35_MainLoadResult ==
    [][PollsLoadedSlot(PDB_MAIN_SLOT) =>
           /\ current_mode' = [mode |-> "Browsing", content |-> <<>>]
           /\ LET filter == [cmd |-> "UpdateTypeFilter", slot |-> 0,
                             search_filter |-> "", case_insensitive |-> FALSE]
                  unload == [cmd |-> "UnloadPDB", slot |-> 1]
              IN  NewlySent = IF current_mode.mode = "Comparing"
                              THEN <<unload, filter>> ELSE <<filter>>]_vars

\* A successful load of slot 0 was handled during a comparison: the last two
\* commands sent are the unload, not yet run, and the filter.
C35_Witness ==
    /\ current_mode = [mode |-> "Browsing", content |-> <<>>]
    /\ Len(sent) >= 2
    /\ sent[Len(sent) - 1] = UnloadPDB(PDB_DIFF_SLOT)
    /\ sent[Len(sent)] = UpdateTypeFilter(PDB_MAIN_SLOT, "", FALSE)
    /\ PDB_DIFF_SLOT \in DOMAIN pdb_files

\* C36: handling a successful load result of slot 1 leaves the application
\* in Comparing mode with empty content and sends one command, the merged
\* filter of slots 0 and 1 with the empty pattern; and a LoadPDB for slot 1
\* is sent only in Browsing mode.
C36_DiffLoadResult ==
    [][/\ PollsLoadedSlot(PDB_DIFF_SLOT) =>
              /\ current_mode' = [mode |-> "Comparing", content |-> <<>>]
              /\ NewlySent = <<[cmd |-> "UpdateTypeFilterMerged",
                                slots |-> <<0, 1>>, search_filter |-> "",
                                case_insensitive |-> FALSE]>>
       /\ \A k \in DOMAIN NewlySent :
              (NewlySent[k].cmd = "LoadPDB" /\ NewlySent[k].slot = PDB_DIFF_SLOT)
                  => current_mode.mode = "Browsing"]_vars

\* The comparison file has loaded and its result was handled: Comparing,
\* nothing shown yet, the merged filter sent last.
C36_Witness ==
    /\ current_mode = [mode |-> "Comparing", content |-> <<>>]
    /\ sent # <<>>
    /\ sent[Len(sent)] =
           UpdateTypeFilterMerged(<<PDB_MAIN_SLOT, PDB_DIFF_SLOT>>, "", FALSE)
    /\ PDB_DIFF_SLOT \in DOMAIN pdb_files
    /\ \E k \in DOMAIN sent : sent[k].cmd = "LoadPDB" /\ sent[k].slot = PDB_DIFF_SLOT

\* C37: handling a failed load, reconstruction or diff result changes
\* neither the mode and what it shows, nor the filtered list, nor the
\* selection, and sends nothing; the handler takes the failure off the
\* channel and is ready for whatever result is next.
C37_FailureChangesNothing ==
    /\ [][(rx_ui # <<>> /\ rx_ui' = Tail(rx_ui) /\ IsFailure(Head(rx_ui))) =>
              /\ current_mode' = current_mode
              /\ filtered_type_list' = filtered_type_list
              /\ selected_row' = selected_row
              /\ sent' = sent
              /\ tx_worker' = tx_worker]_vars
    /\ [](rx_ui # <<>> => ENABLED process_ui_commands)

\* With a text shown, a comparison file failed to load and a filter was
\* typed right after: both results have been handled, the text is still
\* shown and the list is the filter's.
C37_Witness ==
    /\ rx_ui = <<>>
    /\ tx_worker = <<>>
    /\ current_mode.mode = "Browsing"
    /\ current_mode.content # <<>>
    /\ \E k \in DOMAIN produced :
           /\ k < Len(produced)
           /\ sent[k].cmd = "LoadPDB"
           /\ IsFailure(produced[k][1])
           /\ sent[k + 1].cmd = "UpdateTypeFilter"
           /\ sent[k + 1].search_filter = "Foo"
           /\ filtered_type_list = produced[k + 1][1].value
           /\ Len(filtered_type_list) = 1

\* ---- the index list component (resym/src/ui_components/index_list.rs)
\* The most rows a list handed to the component has.
MaxRows == 3
\* How many steps below usize::MAX the selected row is followed.
MaxUnderflow == 2

\* The (name, index) entries the lists are made of: two entries share a
\* name, and the names differ in case.
ListEntries == {<<"foobar", 1>>, <<"Foo", 2>>, <<"Foo", 3>>}

IndexLists ==
    UNION {[1..n -> ListEntries] : n \in 0..MaxRows}

\* The byte of a character, as u8.
ByteOf(c) ==
    CASE c = "1" -> 49 [] c = "B" -> 66 [] c = "F" -> 70 [] c = "_" -> 95
      [] c = "a" -> 97 [] c = "b" -> 98 [] c = "d" -> 100 [] c = "e" -> 101
      [] c = "f" -> 102 [] c = "m" -> 109 [] c = "n" -> 110
      [] c = "o" -> 111 [] c = "r" -> 114 [] c = "u" -> 117

\* Ord for byte strings from offset k on: the first differing byte decides,
\* and a proper prefix comes first.
RECURSIVE CmpFrom(_, _, _)
CmpFrom(lhs, rhs, k) ==
    IF k > Len(lhs) /\ k > Len(rhs) THEN "Equal"
    ELSE IF k > Len(lhs) THEN "Less"
    ELSE IF k > Len(rhs) THEN "Greater"
    ELSE IF ByteOf(lhs[k]) < ByteOf(rhs[k]) THEN "Less"
    ELSE IF ByteOf(lhs[k]) > ByteOf(rhs[k]) THEN "Greater"
    ELSE CmpFrom(lhs, rhs, k + 1)

\* String::cmp, applied to the names of two entries.
cmp(lhs, rhs) == CmpFrom(Chars(lhs), Chars(rhs), 1)

\* The list is in the order of the comparison of the names.
IsSortedByName(list) ==
    \A i \in 1..(Len(list) - 1) : cmp(list[i][1], list[i + 1][1]) # "Greater"

\* Every arrangement of the entries of a list.
Arrangements(list) ==
    {[i \in DOMAIN list |-> list[perm[i]]] : perm \in Permutations(DOMAIN list)}

\* sort_unstable_by on the names: the entries in the order of their names,
\* entries of equal names in an order the sort is free to choose.
SortLeavingAsIs(list) == {list}
sort_unstable_by(list) ==
    {sorted \in Arrangements(list) : IsSortedByName(sorted)}

\* What update_index_list may store for a list.
StoredLists(list, ordering) ==
    IF ordering = "Alphabetical" THEN sort_unstable_by(list) ELSE {list}

\* usize values near usize::MAX are written as negative numbers
\* (usize::MAX - k as -1 - k); this is the order of the usize values.
UsizeLess(a, b) ==
    \/ 0 <= a /\ b < 0
    \/ (a < 0) = (b < 0) /\ a < b

DelayedRowSelection(align, request_focus) ==
    [align |-> align, request_focus |-> request_focus]

\* IndexListComponent::update_index_list
update_index_list(list) ==
    /\ given_list' = list
    /\ index_list' \in StoredLists(list, list_ordering)
    /\ list_selected_row' = usize_MAX
    /\ call_count' = 0
    /\ last_calls' = <<>>
    /\ UNCHANGED <<list_ordering, delayed_row_selection, missed>>
    /\ UNCHANGED <<pdbVars, callVars, appVars, diffVars>>

\* The keys the component reads, and the frame's inputs: the row clicked (if
\* any), the key pressed (if any), the rows drawn, and the row whose label
\* has the keyboard focus when the frame starts (if any).
Keys == {"ArrowUp", "ArrowDown", "PageUp", "PageDown"}

RowRanges(num_rows) ==
    {[start |-> s, end |-> e] : s \in 0..(num_rows - 1), e \in 1..num_rows}
        \ {r \in [start : 0..num_rows, end : 0..num_rows] : r.end <= r.start}

\* A row of index_list is selected.
IsRow(row) == 0 <= row /\ row < Len(index_list)

\* The body of the row loop up to the keyboard handling, for one row:
\* a click selects the row and calls back; otherwise a pending delayed
\* selection of this row calls back and is consumed.
DrawRow(st, row_index, clicked) ==
    IF row_index \in clicked
    THEN [st EXCEPT !.selected_row = row_index,
                    !.calls = Append(@, index_list[row_index + 1]),
                    !.focus = {row_index},
                    !.missed = @ \/ (st.count = 0 /\ IsRow(st.selected_row)
                                     /\ st.selected_row # row_index),
                    !.count = 1]
    ELSE IF st.delayed # {} /\ st.selected_row = row_index
    THEN [st EXCEPT !.delayed = {},
                    !.calls = Append(@, index_list[row_index + 1]),
                    !.focus = IF \E d \in st.delayed : d.request_focus
                              THEN {row_index} ELSE @,
                    !.count = @ + 1]
    ELSE st

\* A key press moved the selection to new_row and left it pending.
Navigate(st, new_row, delayed) ==
    [st EXCEPT !.selected_row = new_row,
               !.delayed = {delayed},
               !.missed = @ \/ (st.count = 0 /\ IsRow(st.selected_row)
                                /\ st.selected_row # new_row),
               !.count = 0]

\* The keyboard handling of the row whose label has the focus.
HandleKeys(st, row_index, key, row_range, num_rows) ==
    IF row_index \notin st.focus THEN st
    ELSE IF key = {"ArrowUp"}
    THEN IF UsizeLess(0, st.selected_row)
         THEN Navigate(st, st.selected_row - 1,
                       DelayedRowSelection("None", FALSE))
         ELSE st
    ELSE IF key = {"ArrowDown"}
    THEN IF UsizeLess(st.selected_row, num_rows - 1)
         THEN Navigate(st, st.selected_row + 1,
                       DelayedRowSelection("None", FALSE))
         ELSE st
    ELSE IF key = {"PageUp"}
    THEN Navigate(st, row_range.start, DelayedRowSelection("Center", TRUE))
    ELSE IF key = {"PageDown"}
    THEN Navigate(st, row_range.end - 1, DelayedRowSelection("Center", TRUE))
    ELSE st

\* The row loop over the rows drawn, from row_index to the end of the range.
RECURSIVE DrawRows(_, _, _, _, _, _)
DrawRows(st, row_index, clicked, key, row_range, num_rows) ==
    IF row_index >= row_range.end THEN st
    ELSE DrawRows(HandleKeys(DrawRow(st, row_index, clicked),
                             row_index, key, row_range, num_rows),
                  row_index + 1, clicked, key, row_range, num_rows)

\* IndexListComponent::update: one frame.
update(clicked, key, row_range, focus) ==
    /\ index_list # <<>>
    /\ LET num_rows == Len(index_list)
           st == DrawRows([selected_row |-> list_selected_row,
                           delayed |-> delayed_row_selection,
                           focus |-> focus,
                           calls |-> <<>>,
                           count |-> call_count,
                           missed |-> missed],
                          row_range.start, clicked, key, row_range, num_rows)
       IN  /\ UsizeLess(usize_MAX - MaxUnderflow - 1, st.selected_row)
              \/ st.selected_row >= 0
           /\ list_selected_row' = st.selected_row
           /\ delayed_row_selection' = st.delayed
           /\ last_calls' = st.calls
           /\ call_count' = st.count
           /\ missed' = st.missed
    /\ UNCHANGED <<given_list, index_list, list_ordering>>
    /\ UNCHANGED <<pdbVars, callVars, appVars, diffVars>>

\* A frame with an empty list draws "No results" and returns.
update_no_results ==
    /\ index_list = <<>>
    /\ last_calls' = <<>>
    /\ UNCHANGED <<given_list, index_list, list_ordering, list_selected_row,
                   delayed_row_selection, call_count, missed>>
    /\ UNCHANGED <<pdbVars, callVars, appVars, diffVars>>

ListInit ==
    /\ file_status = "ok"
    /\ stream = <<>>
    /\ load_result = "none"
    /\ pending_forwarders = {}
    /\ complete_type_list = <<>>
    /\ forwarder_to_complete_type = EmptyMap
    /\ pc = "idle"
    /\ type_index = DefaultTypeIndex
    /\ reconstruct_dependencies = FALSE
    /\ needed_types = {}
    /\ processed_types = {}
    /\ type_data = <<>>
    /\ dependencies_data = <<>>
    /\ result = Err("pending")
    /\ add_calls = <<>>
    /\ type_name = {}
    /\ prev = {}
    /\ AppStart
    /\ DiffIdle
    /\ given_list = <<>>
    /\ index_list = <<>>
    /\ list_ordering \in {"None", "Alphabetical"}
    /\ list_selected_row = usize_MAX
    /\ delayed_row_selection = {}
    /\ last_calls = <<>>
    /\ call_count = 0
    /\ missed = FALSE

ListNext ==
    \/ \E list \in IndexLists : update_index_list(list)
    \/ update_no_results
    \/ \E row_range \in RowRanges(Len(index_list)) :
          \E clicked \in {{}} \cup {{r} : r \in row_range.start..(row_range.end - 1)},
             key \in {{}} \cup {{k} : k \in Keys},
             focus \in {{}} \cup {{r} : r \in row_range.start..(row_range.end - 1)} :
                update(clicked, key, row_range, focus)

ListSpec == ListInit /\ [][ListNext]_vars

\* ---------------------------------------------------------------- C38
\* C38: after any sequence of list updates, clicks and Arrow/Page key
\* presses, the component's selected_row is either usize::MAX (no row
\* selected) or an index into the current list.
C38_SelectedRowValid ==
    list_selected_row = usize_MAX \/ IsRow(list_selected_row)

\* ---------------------------------------------------------------- C39
\* C39: each selection the user makes (a click, or a key press that moves
\* the selected row) calls on_element_selected exactly once: no selection
\* is called back a second time, and none is replaced by the next one
\* before it was called back.
C39_OneCallPerSelection ==
    /\ call_count <= 1
    /\ ~missed

\* ---------------------------------------------------------------- C40
\* How many times an entry occurs in a list.
Occurrences(list, entry) ==
    Cardinality({i \in DOMAIN list : list[i] = entry})

\* C40: update_index_list stores a permutation of the list it is given,
\* every (name, index) entry as often as it was given; with Alphabetical
\* ordering the stored names never decrease from one row to the next, and
\* with ordering None the stored list is the list given, in its order.
C40_StoresPermutation ==
    /\ Len(index_list) = Len(given_list)
    /\ \A entry \in ListEntries :
          Occurrences(index_list, entry) = Occurrences(given_list, entry)
    /\ list_ordering = "Alphabetical" =>
          \A i \in 1..(Len(index_list) - 1) :
             cmp(index_list[i][1], index_list[i + 1][1]) \in {"Less", "Equal"}
    /\ list_ordering = "None" => index_list = given_list

\* An alphabetical list was given foobar ahead of the two entries named
\* Foo, and holds the two ahead of foobar.
C40_Witness ==
    /\ list_ordering = "Alphabetical"
    /\ given_list = <<<<"foobar", 1>>, <<"Foo", 2>>, <<"Foo", 3>>>>
    /\ index_list = <<<<"Foo", 3>>, <<"Foo", 2>>, <<"foobar", 1>>>>

=============================================================================
